---- MODULE Spec2Model ----
(***************************************************************************)
(* Barycentric geometry and rational-ratio engine of delta                 *)
(* (src/delta/math_utils.py, src/delta/models.py) and its project manager  *)
(* (src/delta/project_manager.py), with the older get_lever_fraction of    *)
(* src/core/math_utils.py and the older controller of                      *)
(* src/core/project_controller.py.                                         *)
(*                                                                         *)
(* Python floats are modelled as exact rationals over arbitrary-precision  *)
(* integers: rounding error of the binary64 format (relative 1e-16) is     *)
(* abstracted, every epsilon test, clamp and tolerance of the code is      *)
(* computed as written, and a quotient of normalized beyond the range of   *)
(* the format is an infinity.  A Cartesian point is kept as (x, yh) with   *)
(* y = yh * H, H = TRIANGLE_HEIGHT = sqrt(3)/2, so that the irrational     *)
(* factor H is carried symbolically through every product and quotient.    *)
(*                                                                         *)
(* The models of src/delta/models.py are pydantic models with              *)
(* validate_assignment: an assignment to a field sets the field and then   *)
(* runs the model's validators, and the field stays set when one raises.   *)
(* SpecSession runs a project through a sequence of calls, the caller      *)
(* keeping the manager as it was before each call.                         *)
(***************************************************************************)
EXTENDS Integers, Sequences, FiniteSets, TLC

VARIABLES call, ret, done, pc, tried, intersections, manager

vars == <<call, ret, done, pc, tried, intersections, manager>>

(***************************************************************************)
(* Arbitrary-precision naturals: Python's int and the mantissas of its     *)
(* floats exceed the 32-bit integers of the checker.  A natural is the     *)
(* little-endian sequence of its base-LimbBase digits, zero the empty      *)
(* sequence.                                                               *)
(***************************************************************************)
LimbBase == 10 ^ 4

RECURSIVE NatTrim(_)
NatTrim(a) ==
  IF a = <<>> THEN <<>>
  ELSE IF a[Len(a)] = 0 THEN NatTrim(SubSeq(a, 1, Len(a) - 1))
  ELSE a

RECURSIVE NatFromInt(_)
NatFromInt(i) ==
  IF i = 0 THEN <<>>
  ELSE <<i % LimbBase>> \o NatFromInt(i \div LimbBase)

RECURSIVE NatAddC(_, _, _)
NatAddC(a, b, c) ==
  IF a = <<>> /\ b = <<>> THEN (IF c = 0 THEN <<>> ELSE <<c>>)
  ELSE IF b = <<>> /\ c = 0 THEN a
  ELSE IF a = <<>> /\ c = 0 THEN b
  ELSE LET x == IF a = <<>> THEN 0 ELSE a[1]
           y == IF b = <<>> THEN 0 ELSE b[1]
           s == x + y + c
       IN  <<s % LimbBase>> \o
           NatAddC(IF a = <<>> THEN <<>> ELSE Tail(a),
                   IF b = <<>> THEN <<>> ELSE Tail(b), s \div LimbBase)

NatAdd(a, b) == NatAddC(a, b, 0)

\* -1, 0, 1 as a < b, a = b, a > b
RECURSIVE NatCmpFrom(_, _, _)
NatCmpFrom(a, b, i) ==
  IF i = 0 THEN 0
  ELSE IF a[i] < b[i] THEN -1
  ELSE IF a[i] > b[i] THEN 1
  ELSE NatCmpFrom(a, b, i - 1)

NatCmp(a, b) ==
  IF a = b THEN 0
  ELSE IF Len(a) < Len(b) THEN -1
  ELSE IF Len(a) > Len(b) THEN 1
  ELSE NatCmpFrom(a, b, Len(a))

\* a - b for a >= b
RECURSIVE NatSubB(_, _, _)
NatSubB(a, b, br) ==
  IF a = <<>> THEN <<>>
  ELSE IF b = <<>> /\ br = 0 THEN a
  ELSE LET y == IF b = <<>> THEN 0 ELSE b[1]
           s == a[1] - y - br
       IN  <<IF s < 0 THEN s + LimbBase ELSE s>> \o
           NatSubB(Tail(a), IF b = <<>> THEN <<>> ELSE Tail(b),
                   IF s < 0 THEN 1 ELSE 0)

NatSub(a, b) == NatTrim(NatSubB(a, b, 0))

RECURSIVE NatMulLimb(_, _, _)
NatMulLimb(a, m, c) ==
  IF a = <<>> THEN (IF c = 0 THEN <<>> ELSE <<c>>)
  ELSE LET s == a[1] * m + c
       IN  <<s % LimbBase>> \o NatMulLimb(Tail(a), m, s \div LimbBase)

NatShift(a) == IF a = <<>> THEN <<>> ELSE <<0>> \o a

RECURSIVE NatMul(_, _)
NatMul(a, b) ==
  IF a = <<>> \/ b = <<>> THEN <<>>
  ELSE IF Len(b) = 1 THEN (IF b[1] = 1 THEN a ELSE NatMulLimb(a, b[1], 0))
  ELSE IF Len(a) = 1 THEN (IF a[1] = 1 THEN b ELSE NatMulLimb(b, a[1], 0))
  ELSE NatAdd(IF b[1] = 0 THEN <<>> ELSE NatMulLimb(a, b[1], 0),
              NatShift(NatMul(a, Tail(b))))

RECURSIVE NatPow10(_)
NatPow10(k) ==
  IF k = 0 THEN <<1>>
  ELSE IF k >= 4 THEN NatShift(NatPow10(k - 4))
  ELSE NatMulLimb(NatPow10(k - 1), 10, 0)

\* a natural of at most two limbs as an integer
NatToInt(a) ==
  IF a = <<>> THEN 0
  ELSE IF Len(a) = 1 THEN a[1]
  ELSE a[1] + a[2] * LimbBase

\* the largest q in lo..hi with q * b <= r
RECURSIVE NatQuotLimb(_, _, _, _)
NatQuotLimb(r, b, lo, hi) ==
  IF lo = hi THEN lo
  ELSE LET mid == (lo + hi + 1) \div 2
       IN  IF NatCmp(NatMulLimb(b, mid, 0), r) <= 0
           THEN NatQuotLimb(r, b, mid, hi)
           ELSE NatQuotLimb(r, b, lo, mid - 1)

\* long division of a by b from limb i down, r the running remainder
RECURSIVE NatDivStep(_, _, _, _, _)
NatDivStep(a, b, i, r, q) ==
  IF i = 0 THEN [q |-> NatTrim(q), r |-> r]
  ELSE LET r1 == NatTrim(<<a[i]>> \o r)
           d  == IF NatCmp(r1, b) < 0 THEN 0
                 ELSE NatQuotLimb(r1, b, 1, LimbBase - 1)
           r2 == IF d = 0 THEN r1 ELSE NatSub(r1, NatMulLimb(b, d, 0))
       IN  NatDivStep(a, b, i - 1, r2, <<d>> \o q)

\* quotient and remainder of a by b # 0
NatDivMod(a, b) ==
  IF Len(a) <= 2 /\ Len(b) <= 2
  THEN [q |-> NatFromInt(NatToInt(a) \div NatToInt(b)),
        r |-> NatFromInt(NatToInt(a) % NatToInt(b))]
  ELSE IF b = <<1>> THEN [q |-> a, r |-> <<>>]
  ELSE NatDivStep(a, b, Len(a), <<>>, <<>>)

RECURSIVE gcd(_, _)
gcd(a, b) == IF b = 0 THEN a ELSE gcd(b, a % b)

RECURSIVE NatGcd(_, _)
NatGcd(a, b) ==
  IF b = <<>> THEN a
  ELSE IF Len(a) <= 2 /\ Len(b) <= 2
  THEN NatFromInt(gcd(NatToInt(a), NatToInt(b)))
  ELSE NatGcd(b, NatDivMod(a, b).r)

(***************************************************************************)
(* Exact rationals in lowest terms: the values of Python floats.  s is the *)
(* sign (-1, 0, 1), n the magnitude of the numerator, d the positive       *)
(* denominator.                                                            *)
(***************************************************************************)
\* s * n / d with g the greatest common divisor of n and d
RatReduced(s, n, d, g) ==
  IF g = <<1>> THEN [s |-> s, n |-> n, d |-> d]
  ELSE [s |-> s, n |-> NatDivMod(n, g).q, d |-> NatDivMod(d, g).q]

Rat(s, n, d) ==
  IF n = <<>> THEN [s |-> 0, n |-> <<>>, d |-> <<1>>]
  ELSE RatReduced(s, n, d, NatGcd(n, d))

RatInt(i) == Rat(IF i < 0 THEN -1 ELSE 1, NatFromInt(IF i < 0 THEN -i ELSE i), <<1>>)

\* i / j for a positive j
RatFrac(i, j) ==
  Rat(IF i < 0 THEN -1 ELSE 1, NatFromInt(IF i < 0 THEN -i ELSE i),
      NatFromInt(j))

RatNeg(x) == [x EXCEPT !.s = -x.s]

RatAbs(x) == [x EXCEPT !.s = IF x.s = 0 THEN 0 ELSE 1]

\* the sum of two signed magnitudes over one denominator, c comparing them
RatSignedCmp(sx, nx, sy, ny, d, c) ==
  Rat(IF sx = 0 THEN sy
      ELSE IF sy = 0 \/ sx = sy THEN sx
      ELSE IF c = 0 THEN 0
      ELSE IF c > 0 THEN sx ELSE sy,
      IF sx = 0 THEN ny
      ELSE IF sy = 0 THEN nx
      ELSE IF sx = sy THEN NatAdd(nx, ny)
      ELSE IF c = 0 THEN <<>>
      ELSE IF c > 0 THEN NatSub(nx, ny) ELSE NatSub(ny, nx),
      d)

RatSigned(sx, nx, sy, ny, d) ==
  RatSignedCmp(sx, nx, sy, ny, d, NatCmp(nx, ny))

RatAdd(x, y) ==
  RatSigned(x.s, IF x.d = y.d THEN x.n ELSE NatMul(x.n, y.d),
            y.s, IF x.d = y.d THEN y.n ELSE NatMul(y.n, x.d),
            IF x.d = y.d THEN x.d ELSE NatMul(x.d, y.d))

RatSub(x, y) == RatAdd(x, RatNeg(y))

RatMul(x, y) == Rat(x.s * y.s, NatMul(x.n, y.n), NatMul(x.d, y.d))

\* x / y for y # 0
RatDiv(x, y) == Rat(x.s * y.s, NatMul(x.n, y.d), NatMul(x.d, y.n))

\* -1, 0, 1 as x < y, x = y, x > y
RatCmp(x, y) ==
  IF x.s # y.s THEN (IF x.s < y.s THEN -1 ELSE 1)
  ELSE IF x.s = 0 THEN 0
  ELSE x.s * NatCmp(IF x.d = y.d THEN x.n ELSE NatMul(x.n, y.d),
                    IF x.d = y.d THEN y.n ELSE NatMul(y.n, x.d))

RatLt(x, y) == RatCmp(x, y) < 0
RatLe(x, y) == RatCmp(x, y) <= 0
RatEq(x, y) == RatCmp(x, y) = 0

(***************************************************************************)
(* The range of binary64.  A quotient whose magnitude reaches              *)
(* 2^1024 - 2^970, the midpoint between the largest float and 2^1024, is   *)
(* rounded to an infinity; Python's float division does not raise for it.  *)
(***************************************************************************)
\* 2^1024 - 2^970, its base-LimbBase digits from the lowest
FLOAT_OVERFLOW ==
  << 7792, 7449, 9041, 177, 4288, 930, 9508, 5969, 7115, 4342, 1070, 3655,
     8444, 7416, 7190, 5292, 3647, 8349, 9860, 1481, 8429, 9622, 6695, 5713,
     9855, 7006, 7302, 4475, 3176, 7115, 5817, 5484, 2738, 3676, 838, 7,
     8902, 8190, 8206, 1505, 8867, 6574, 2630, 4040, 8519, 5547, 4655, 9109,
     2887, 1669, 2864, 6330, 709, 5872, 7977, 4901, 9466, 4750, 9276, 9682,
     444, 7898, 1737, 6936, 3782, 7100, 4132, 7993, 4150, 5303, 7140, 7289,
     793, 3158, 4862, 9313, 7976, 1 >>

\* float('inf') and float('-inf'): a denominator of zero
Infinity(s) == [s |-> s, n |-> <<1>>, d |-> <<>>]

is_finite(x) == x.d # <<>>

\* the float a quotient is rounded to, where it is out of range
float_of(x) ==
  IF /\ Len(x.n) >= Len(x.d) + Len(FLOAT_OVERFLOW) - 1
     /\ NatCmp(x.n, NatMul(FLOAT_OVERFLOW, x.d)) >= 0
  THEN Infinity(x.s)
  ELSE x

(***************************************************************************)
(* Constants of delta/constants.py.                                        *)
(***************************************************************************)
\* EPSILON_ZERO = 10^-EPSILON_ZERO_DIGITS
EPSILON_ZERO_DIGITS == 12
EPSILON_ZERO == Rat(1, <<1>>, NatPow10(EPSILON_ZERO_DIGITS))

\* COMPOSITION_COMPARISON_ATOL = 5e-5 = 1 / COMPOSITION_COMPARISON_ATOL_INV
COMPOSITION_COMPARISON_ATOL_INV == 20000
COMPOSITION_COMPARISON_ATOL == RatFrac(1, COMPOSITION_COMPARISON_ATOL_INV)

\* TOLERANCE_ON_LINE_STRICT = 10^-TOLERANCE_ON_LINE_STRICT_DIGITS
TOLERANCE_ON_LINE_STRICT_DIGITS == 4
TOLERANCE_ON_LINE_STRICT == Rat(1, <<1>>, NatPow10(TOLERANCE_ON_LINE_STRICT_DIGITS))

(***************************************************************************)
(* Composition (delta/models.py): three raw coordinates.  An operation     *)
(* that may raise returns [ok |-> TRUE, v |-> value] or                    *)
(* [ok |-> FALSE, err |-> the exception's class].                          *)
(***************************************************************************)
Composition(a, b, c) == [a |-> a, b |-> b, c |-> c]

Ok(v) == [ok |-> TRUE, v |-> v]
Raise(e) == [ok |-> FALSE, err |-> e]

total(comp) == RatAdd(RatAdd(comp.a, comp.b), comp.c)

\* normalized, total_val being self.total
normalized_by(comp, total_val) ==
  IF RatLt(RatAbs(total_val), EPSILON_ZERO) THEN Raise("CompositionError")
  ELSE Ok(<<float_of(RatDiv(comp.a, total_val)),
            float_of(RatDiv(comp.b, total_val)),
            float_of(RatDiv(comp.c, total_val))>>)

normalized(comp) == normalized_by(comp, total(comp))

vertex_a == Composition(RatInt(1), RatInt(0), RatInt(0))
vertex_b == Composition(RatInt(0), RatInt(1), RatInt(0))
vertex_c == Composition(RatInt(0), RatInt(0), RatInt(1))

\* the larger of two magnitudes
RatMaxAbs(x, y) == IF RatLt(RatAbs(x), RatAbs(y)) THEN RatAbs(y) ELSE RatAbs(x)

\* the comparison of core/models.py: math.isclose with rel_tol = 1e-5
is_close_relative(n1, n2, atol) ==
  IF ~n1.ok \/ ~n2.ok THEN FALSE
  ELSE \A i \in 1..3 :
         RatLe(RatAbs(RatSub(n1.v[i], n2.v[i])),
               RatMul(Rat(1, <<1>>, NatPow10(5)),
                      RatMaxAbs(n1.v[i], n2.v[i])))

\* normalized_is_close, n1 and n2 being the two normalized results
is_close(n1, n2, atol) ==
  IF ~n1.ok \/ ~n2.ok THEN FALSE
  ELSE \A i \in 1..3 : RatLt(RatAbs(RatSub(n1.v[i], n2.v[i])), atol)

normalized_is_close(self, other, atol) ==
  is_close(normalized(self), normalized(other), atol)

\* "can be normalized" read as abs(total) >= EPSILON_ZERO
Composition_is_valid_abs(comp) == ~RatLt(RatAbs(total(comp)), EPSILON_ZERO)

\* Composition.is_valid
Composition_is_valid(comp) == RatLt(EPSILON_ZERO, total(comp))

(***************************************************************************)
(* Coordinate transform (delta/math_utils.py).  A Cartesian point is       *)
(* [x, yh] with y = yh * H; h in the code is H, so y / h is yh and h - y   *)
(* is (1 - yh) * H.                                                        *)
(***************************************************************************)
Point(x, yh) == [x |-> x, yh |-> yh]

get_vertices(is_inverted) ==
  IF is_inverted
  THEN <<Point(RatInt(0), RatInt(1)), Point(RatInt(1), RatInt(1)),
         Point(RatFrac(1, 2), RatInt(0))>>
  ELSE <<Point(RatInt(0), RatInt(0)), Point(RatInt(1), RatInt(0)),
         Point(RatFrac(1, 2), RatInt(1))>>

\* a * v_a + b * v_b + c * v_c, n being comp.normalized and v the vertices
weighted_vertices(n, v) ==
  IF ~n.ok THEN n
  ELSE Ok(Point(
         RatAdd(RatAdd(RatMul(n.v[1], v[1].x), RatMul(n.v[2], v[2].x)),
                RatMul(n.v[3], v[3].x)),
         RatAdd(RatAdd(RatMul(n.v[1], v[1].yh), RatMul(n.v[2], v[2].yh)),
                RatMul(n.v[3], v[3].yh))))

bary_to_cart(comp, is_inverted) ==
  weighted_vertices(normalized(comp), get_vertices(is_inverted))

\* the computed value returned as it is
_clamp_barycentric_never(val) == val

_clamp_barycentric(val) ==
  IF RatLt(RatAbs(val), EPSILON_ZERO) THEN RatInt(0) ELSE val

\* a = 1.0 - b - c, each coordinate clamped
clamped_composition(b, c) ==
  Composition(_clamp_barycentric(RatSub(RatSub(RatInt(1), b), c)),
              _clamp_barycentric(b), _clamp_barycentric(c))

\* b = x - c * 0.5
from_x_and_c(x, c) == clamped_composition(RatSub(x, RatMul(c, RatFrac(1, 2))), c)

\* the upright formulas applied in both orientations
cart_to_bary_upright_only(x, yh, is_inverted) == from_x_and_c(x, yh)

cart_to_bary(x, yh, is_inverted) ==
  from_x_and_c(x, IF ~is_inverted THEN yh ELSE RatSub(RatInt(1), yh))

\* cart_to_bary(cart[0], cart[1], is_inverted) for cart the point returned
back_to_bary(cart, is_inverted) ==
  IF ~cart.ok THEN cart
  ELSE Ok(cart_to_bary(cart.v.x, cart.v.yh, is_inverted))

\* cart_to_bary(*bary_to_cart(comp, is_inverted), is_inverted)
round_trip(comp, is_inverted) ==
  back_to_bary(bary_to_cart(comp, is_inverted), is_inverted)

(***************************************************************************)
(* Intersection solver.  A product of an x-coordinate and a y-coordinate   *)
(* is a multiple of H, kept as its coefficient; TRIANGLE_HEIGHT_SQ = H^2.  *)
(***************************************************************************)
TRIANGLE_HEIGHT_SQ == RatFrac(3, 4)

\* a test for exactly zero in place of the epsilon
HAbsLt_exact_zero(coef, bound) == coef.s = 0

\* abs(coef * H) < bound, for bound >= 0
HAbsLt(coef, bound) ==
  RatLt(RatMul(RatMul(coef, coef), TRIANGLE_HEIGHT_SQ), RatMul(bound, bound))

None == [some |-> FALSE]
Some(comp) == [some |-> TRUE, comp |-> comp]

\* the two products added
Cross2_sum(ux, uyh, vx, vyh) == RatAdd(RatMul(ux, vyh), RatMul(uyh, vx))

\* U[0] * V[1] - U[1] * V[0], in units of H
Cross2(ux, uyh, vx, vyh) == RatSub(RatMul(ux, vyh), RatMul(uyh, vx))

\* intersection = P + t * R
intersection_at(P, Rx, Ryh, t) ==
  Ok(Some(cart_to_bary(RatAdd(P.x, RatMul(t, Rx)),
                       RatAdd(P.yh, RatMul(t, Ryh)), FALSE)))

\* the test of the denominator, then t = numer_t / denom
intersection_by(P, Rx, Ryh, numer_t, denom) ==
  IF HAbsLt(denom, EPSILON_ZERO) THEN Ok(None)
  ELSE intersection_at(P, Rx, Ryh, RatDiv(numer_t, denom))

\* R = p2 - p1, S = p4 - p3, QP = p3 - p1
intersection_of(P, Rx, Ryh, Sx, Syh, QPx, QPyh) ==
  intersection_by(P, Rx, Ryh, Cross2(QPx, QPyh, Sx, Syh),
                  Cross2(Rx, Ryh, Sx, Syh))

\* p1..p4 the Cartesian points, or the CompositionError of bary_to_cart
intersection_cart(p1, p2, p3, p4) ==
  IF ~p1.ok \/ ~p2.ok \/ ~p3.ok \/ ~p4.ok THEN Ok(None)
  ELSE intersection_of(p1.v, RatSub(p2.v.x, p1.v.x), RatSub(p2.v.yh, p1.v.yh),
                       RatSub(p4.v.x, p3.v.x), RatSub(p4.v.yh, p3.v.yh),
                       RatSub(p3.v.x, p1.v.x), RatSub(p3.v.yh, p1.v.yh))

solve_intersection(p1_comp, p2_comp, p3_comp, p4_comp) ==
  intersection_cart(bary_to_cart(p1_comp, FALSE), bary_to_cart(p2_comp, FALSE),
                    bary_to_cart(p3_comp, FALSE), bary_to_cart(p4_comp, FALSE))

(***************************************************************************)
(* Lever rule.  Vectors are triples of normalized coordinates.             *)
(***************************************************************************)
VecSub(u, v) == <<RatSub(u[1], v[1]), RatSub(u[2], v[2]), RatSub(u[3], v[3])>>

dot(u, v) ==
  RatAdd(RatAdd(RatMul(u[1], v[1]), RatMul(u[2], v[2])), RatMul(u[3], v[3]))

\* the test of len_sq, then t
lever_by(vec_line, vec_point, len_sq) ==
  IF RatLt(len_sq, EPSILON_ZERO) THEN Raise("DegenerateBasisError")
  ELSE Ok(RatDiv(dot(vec_point, vec_line), len_sq))

lever_of(vec_line, vec_point) ==
  lever_by(vec_line, vec_point, dot(vec_line, vec_line))

\* s, e, p the normalized coordinates, or the CompositionError raised
lever_normalized(s, e, p) ==
  IF ~s.ok THEN s
  ELSE IF ~e.ok THEN e
  ELSE IF ~p.ok THEN p
  ELSE lever_of(VecSub(e.v, s.v), VecSub(p.v, s.v))

\* a fraction clipped to [0, 1]
clipped(t) ==
  IF ~t.ok THEN t
  ELSE IF RatLt(t.v, RatInt(0)) THEN Ok(RatInt(0))
  ELSE IF RatLt(RatInt(1), t.v) THEN Ok(RatInt(1))
  ELSE t

\* t clipped to [0, 1] as get_closest_composition_on_segment does
get_lever_fraction_clipped(p_start, p_end, p_point) ==
  clipped(lever_normalized(normalized(p_start), normalized(p_end),
                           normalized(p_point)))

get_lever_fraction(p_start, p_end, p_point) ==
  lever_normalized(normalized(p_start), normalized(p_end),
                   normalized(p_point))

(***************************************************************************)
(* Collinearity.  A norm is compared by its square, and an area, which is  *)
(* a square root, is the record Sqrt(sq) of its square.                    *)
(***************************************************************************)
\* the second component with the sign of one product reversed
cross_sign_error(u, v) ==
  <<RatSub(RatMul(u[2], v[3]), RatMul(u[3], v[2])),
    RatAdd(RatMul(u[3], v[1]), RatMul(u[1], v[3])),
    RatSub(RatMul(u[1], v[2]), RatMul(u[2], v[1]))>>

\* np.cross(u, v)
cross(u, v) ==
  <<RatSub(RatMul(u[2], v[3]), RatMul(u[3], v[2])),
    RatSub(RatMul(u[3], v[1]), RatMul(u[1], v[3])),
    RatSub(RatMul(u[1], v[2]), RatMul(u[2], v[1]))>>

\* the non-negative number whose square is sq
Sqrt(sq) == [sq |-> sq]

\* np.linalg.norm(v) < tol
norm_below(v, tol) ==
  /\ RatLt(RatInt(0), tol)
  /\ RatLt(dot(v, v), RatMul(tol, tol))

\* a1, a2, a3 the normalized coordinates, or the CompositionError raised
collinear_normalized(a1, a2, a3, tol) ==
  IF ~a1.ok \/ ~a2.ok \/ ~a3.ok THEN TRUE
  ELSE norm_below(cross(VecSub(a2.v, a1.v), VecSub(a3.v, a1.v)), tol)

are_compositions_collinear(p1, p2, p3, tol) ==
  collinear_normalized(normalized(p1), normalized(p2), normalized(p3), tol)

\* np.linalg.norm(v) / 2
half_norm(v) == Sqrt(RatMul(dot(v, v), RatFrac(1, 4)))

area_normalized(a1, a2, a3) ==
  IF ~a1.ok \/ ~a2.ok \/ ~a3.ok THEN Sqrt(RatInt(0))
  ELSE half_norm(cross(VecSub(a2.v, a1.v), VecSub(a3.v, a1.v)))

get_triangle_area(p1, p2, p3) ==
  area_normalized(normalized(p1), normalized(p2), normalized(p3))

\* the norm of the cross product compared without the division
distance_below_undivided(cross_prod, line_len_sq, tol) ==
  /\ RatLt(RatInt(0), tol)
  /\ RatLt(dot(cross_prod, cross_prod), RatMul(tol, tol))

\* np.linalg.norm(cross_prod) / np.sqrt(line_len_sq) < tol
distance_below(cross_prod, line_len_sq, tol) ==
  /\ RatLt(RatInt(0), tol)
  /\ RatLt(dot(cross_prod, cross_prod), RatMul(RatMul(tol, tol), line_len_sq))

\* the test of line_len_sq, then the distance
on_line_by(vec_line, vec_point, line_len_sq, tol) ==
  IF RatLt(line_len_sq, EPSILON_ZERO) THEN norm_below(vec_point, tol)
  ELSE distance_below(cross(vec_line, vec_point), line_len_sq, tol)

on_line_of(vec_line, vec_point, tol) ==
  on_line_by(vec_line, vec_point, dot(vec_line, vec_line), tol)

\* s, e, p the normalized coordinates, or the CompositionError raised
on_line_normalized(s, e, p, tol) ==
  IF ~s.ok \/ ~e.ok \/ ~p.ok THEN FALSE
  ELSE on_line_of(VecSub(e.v, s.v), VecSub(p.v, s.v), tol)

is_point_on_line(p_start, p_end, p_point, tol) ==
  on_line_normalized(normalized(p_start), normalized(p_end),
                     normalized(p_point), tol)

\* core/models.py: total is a + b + c, the test is against the literal 1e-12
core_normalized_by(comp, total_val) ==
  IF RatLt(RatAbs(total_val), Rat(1, <<1>>, NatPow10(12)))
  THEN Raise("CompositionError")
  ELSE Ok(<<RatDiv(comp.a, total_val), RatDiv(comp.b, total_val),
            RatDiv(comp.c, total_val)>>)

core_normalized(comp) ==
  core_normalized_by(comp, RatAdd(RatAdd(comp.a, comp.b), comp.c))

\* core/math_utils.py: 0.0 in place of the exception
core_lever_by(vec_line, vec_point, len_sq) ==
  IF RatLt(len_sq, EPSILON_ZERO) THEN Ok(RatInt(0))
  ELSE Ok(RatDiv(dot(vec_point, vec_line), len_sq))

core_lever_of(vec_line, vec_point) ==
  core_lever_by(vec_line, vec_point, dot(vec_line, vec_line))

core_lever_normalized(s, e, p) ==
  IF ~s.ok THEN s
  ELSE IF ~e.ok THEN e
  ELSE IF ~p.ok THEN p
  ELSE core_lever_of(VecSub(e.v, s.v), VecSub(p.v, s.v))

core_get_lever_fraction(p_start, p_end, p_point) ==
  core_lever_normalized(core_normalized(p_start), core_normalized(p_end),
                        core_normalized(p_point))

(***************************************************************************)
(* Rational ratio finder (find_integer_ratio).  A list of floats is a      *)
(* sequence of rationals; the integers of a candidate are machine-size.    *)
(***************************************************************************)
RATIO_TOLERANCE_INV == 20000
RATIO_TOLERANCE == RatFrac(1, RATIO_TOLERANCE_INV)

RATIO_MAX_DENOMINATOR == 1000000

SCALE == 100000

\* the denominator limits from the loosest to the tightest
tiers_reversed == <<RATIO_MAX_DENOMINATOR, 10000, 100>>

tiers == <<100, 10000, RATIO_MAX_DENOMINATOR>>

Abs(i) == IF i < 0 THEN -i ELSE i

\* the first half of xs and the rest of it; the folds below are exact and
\* associative, and are taken by halves to keep long lists shallow
front(xs) == SubSeq(xs, 1, Len(xs) \div 2)

back(xs) == SubSeq(xs, Len(xs) \div 2 + 1, Len(xs))

\* math.fsum
RECURSIVE fsum(_)
fsum(xs) ==
  IF xs = <<>> THEN RatInt(0)
  ELSE IF Len(xs) = 1 THEN xs[1]
  ELSE RatAdd(fsum(front(xs)), fsum(back(xs)))

\* sum
RECURSIVE sum(_)
sum(xs) ==
  IF xs = <<>> THEN 0
  ELSE IF Len(xs) = 1 THEN xs[1]
  ELSE sum(front(xs)) + sum(back(xs))

\* the larger of the two in place of their least common multiple
_lcm_max(a, b) == IF Abs(a) > Abs(b) THEN Abs(a) ELSE Abs(b)

_lcm(a, b) ==
  IF a # 0 /\ b # 0 THEN Abs(a * b) \div gcd(Abs(a), Abs(b))
  ELSE IF Abs(a) > Abs(b) THEN Abs(a) ELSE Abs(b)

\* reduce(_lcm, xs, acc)
RECURSIVE reduce_lcm(_, _)
reduce_lcm(xs, acc) ==
  IF xs = <<>> THEN acc ELSE reduce_lcm(Tail(xs), _lcm(acc, xs[1]))

\* reduce(gcd, xs) for a non-empty xs
RECURSIVE reduce_gcd(_)
reduce_gcd(xs) ==
  IF Len(xs) = 1 THEN Abs(xs[1])
  ELSE gcd(reduce_gcd(front(xs)), reduce_gcd(back(xs)))

\* the continued-fraction loop of Fraction.limit_denominator: a = n // d,
\* q2 = q0 + a * q1, and the step to the next convergent
RECURSIVE convergents(_, _, _, _, _, _, _)
RECURSIVE convergents_step(_, _, _, _, _, _, _)
RECURSIVE convergents_next(_, _, _, _, _, _, _, _)
convergents_next(p0, q0, p1, q1, d, a, q2, max_denominator) ==
  IF NatCmp(q2, max_denominator) > 0
  THEN [p0 |-> p0, q0 |-> q0, p1 |-> p1, q1 |-> q1]
  ELSE convergents(p1, q1, NatAdd(p0, NatMul(a.q, p1)), q2, d, a.r,
                   max_denominator)

convergents_step(p0, q0, p1, q1, d, a, max_denominator) ==
  convergents_next(p0, q0, p1, q1, d, a, NatAdd(q0, NatMul(a.q, q1)),
                   max_denominator)

convergents(p0, q0, p1, q1, n, d, max_denominator) ==
  convergents_step(p0, q0, p1, q1, d, NatDivMod(n, d), max_denominator)

\* bound2 if abs(bound2 - self) <= abs(bound1 - self) else bound1
closer_bound(self, bound1, bound2) ==
  IF RatLe(RatAbs(RatSub(bound2, self)), RatAbs(RatSub(bound1, self)))
  THEN bound2
  ELSE bound1

\* bound1 = (p0 + k * p1) / (q0 + k * q1), bound2 = p1 / q1
bounds_of(self, c, k) ==
  closer_bound(self, Rat(1, NatAdd(c.p0, NatMul(k, c.p1)),
                         NatAdd(c.q0, NatMul(k, c.q1))),
               Rat(1, c.p1, c.q1))

\* k = (max_denominator - q0) // q1, c being the state the loop ends in
bounds_after(self, m, c) ==
  bounds_of(self, c, NatDivMod(NatSub(m, c.q0), c.q1).q)

\* limit_denominator, m being max_denominator
limit_denominator_nat(self, m) ==
  IF NatCmp(self.d, m) <= 0 THEN self
  ELSE bounds_after(self, m,
                    convergents(<<>>, <<1>>, <<1>>, <<>>, self.n, self.d, m))

\* Fraction(self).limit_denominator(max_denominator) for self >= 0
limit_denominator(self, max_denominator) ==
  limit_denominator_nat(self, NatFromInt(max_denominator))

\* the tolerance of an earlier version, 1e-4
is_valid_loose(normalized_floats, integers) ==
  LET sum_int == sum(integers)
  IN  \A i \in 1..Len(integers) :
        RatLe(RatAbs(RatSub(normalized_floats[i],
                            RatFrac(integers[i], sum_int))),
              RatFrac(2, RATIO_TOLERANCE_INV))

\* no validation of the candidate
is_valid_always(normalized_floats, integers) == TRUE

\* step 4 of a tier: every component within RATIO_TOLERANCE
is_valid(normalized_floats, integers) ==
  LET sum_int == sum(integers)
  IN  \A i \in 1..Len(integers) :
        RatLe(RatAbs(RatSub(normalized_floats[i],
                            RatFrac(integers[i], sum_int))),
              RATIO_TOLERANCE)

\* steps 3 and 4 of a tier: the sum check, then the validation
tier_validated(normalized_floats, integers) ==
  IF RatLt(RatInt(sum(integers)), EPSILON_ZERO)
  THEN [valid |-> FALSE, integers |-> integers]
  ELSE [valid |-> is_valid(normalized_floats, integers),
        integers |-> integers]

\* the division by common_gcd = reduce(gcd, non_zero_ints)
tier_divided(normalized_floats, integers, common_gcd) ==
  tier_validated(normalized_floats,
                 IF common_gcd > 1
                 THEN [i \in 1..Len(integers) |-> integers[i] \div common_gcd]
                 ELSE integers)

\* the test of non_zero_ints
tier_reduced(normalized_floats, integers, non_zero_ints) ==
  IF non_zero_ints = <<>> THEN [valid |-> FALSE, integers |-> integers]
  ELSE tier_divided(normalized_floats, integers, reduce_gcd(non_zero_ints))

\* non_zero_ints = [x for x in integers if x != 0]
tier_integers(normalized_floats, integers) ==
  tier_reduced(normalized_floats, integers,
               SelectSeq(integers, LAMBDA i : i # 0))

\* integers = [int(f.numerator * (common_denom // f.denominator)) ...]
tier_scaled(normalized_floats, fractions, denoms, common_denom) ==
  tier_integers(normalized_floats,
                [i \in 1..Len(fractions) |->
                   NatToInt(fractions[i].n) * (common_denom \div denoms[i])])

\* common_denom = reduce(_lcm, denoms, 1)
tier_denoms(normalized_floats, fractions, denoms) ==
  tier_scaled(normalized_floats, fractions, denoms, reduce_lcm(denoms, 1))

\* denoms = [f.denominator for f in fractions]
tier_fractions(normalized_floats, fractions) ==
  tier_denoms(normalized_floats, fractions,
              [i \in 1..Len(fractions) |-> NatToInt(fractions[i].d)])

\* the body of the loop over the tiers: the candidate of one limit, and
\* whether it is returned
tier_candidate(normalized_floats, limit) ==
  tier_fractions(normalized_floats,
                 [i \in 1..Len(normalized_floats) |->
                    limit_denominator(RatAbs(normalized_floats[i]), limit)])

\* q + 1 or q, half comparing twice the remainder with the denominator
round_half(q, half) ==
  IF half > 0 \/ (half = 0 /\ q % 2 = 1) THEN q + 1 ELSE q

\* qr = divmod(numerator, denominator)
round_divmod(x, qr) ==
  x.s * round_half(NatToInt(qr.q), NatCmp(NatAdd(qr.r, qr.r), x.d))

\* int(round(x)): to the nearest integer, a half to the even one
round(x) == round_divmod(x, NatDivMod(x.n, x.d))

\* the index of the first occurrence of v
RECURSIVE index(_, _, _)
index(xs, v, i) == IF xs[i] = v THEN i ELSE index(xs, v, i + 1)

\* the larger of x and m
larger(x, m) == IF x >= m THEN x ELSE m

RECURSIVE max(_)
max(xs) ==
  IF Len(xs) = 1 THEN xs[1] ELSE larger(max(front(xs)), max(back(xs)))

\* the division by common = reduce(gcd, non_zero)
fallback_divided(ints, non_zero, common) ==
  IF non_zero # <<>> /\ common > 1
  THEN [i \in 1..Len(ints) |-> ints[i] \div common]
  ELSE ints

fallback_non_zero(ints, non_zero) ==
  fallback_divided(ints, non_zero, reduce_gcd(non_zero))

\* non_zero = [x for x in ints if x != 0]
fallback_reduced(ints) ==
  fallback_non_zero(ints, SelectSeq(ints, LAMBDA i : i # 0))

\* ints[max_idx] += diff
fallback_corrected(ints, diff, max_val) ==
  fallback_reduced(IF diff # 0 /\ ints # <<>> /\ max_val > 0
                   THEN [ints EXCEPT ![index(ints, max_val, 1)] = @ + diff]
                   ELSE ints)

\* diff = SCALE - sum(ints), max_val = max(ints)
fallback_ints(ints) == fallback_corrected(ints, SCALE - sum(ints), max(ints))

_fallback_scaling(normalized_floats) ==
  fallback_ints([i \in 1..Len(normalized_floats) |->
                   round(RatMul(normalized_floats[i], RatInt(SCALE)))])

\* [f / total_val for f in floats]
normalized_list_by(floats, total_val) ==
  [i \in 1..Len(floats) |-> RatDiv(floats[i], total_val)]

normalized_list(floats) == normalized_list_by(floats, fsum(floats))

(***************************************************************************)
(* Intersections of a line with the triangle                               *)
(* (get_line_triangle_intersections).                                      *)
(***************************************************************************)
EPSILON_BOUNDARY_DIGITS == 9
EPSILON_BOUNDARY == Rat(1, <<1>>, NatPow10(EPSILON_BOUNDARY_DIGITS))

\* the edges AB (c = 0), BC (a = 0) and CA (b = 0)
boundaries ==
  <<<<vertex_a, vertex_b>>, <<vertex_b, vertex_c>>, <<vertex_c, vertex_a>>>>

\* all(v >= -EPSILON_BOUNDARY for v in vals)
all_inside(vals) ==
  \A i \in 1..3 : RatLe(RatNeg(EPSILON_BOUNDARY), vals[i])

\* Composition.is_physically_valid
is_physically_valid(comp) ==
  IF ~Composition_is_valid(comp) THEN FALSE
  ELSE all_inside(normalized(comp).v)

\* no point is taken for a duplicate
is_duplicate_never(found, res) == FALSE

\* the loop over the points found so far
is_duplicate(found, res) ==
  \E k \in 1..Len(found) :
    normalized_is_close(found[k], res, COMPOSITION_COMPARISON_ATOL)

\* the body of "if res": vals = res.normalized, the test of vals and of
\* duplicates, the append
boundary_checked(found, res, vals) ==
  IF vals.ok /\ all_inside(vals.v) /\ ~is_duplicate(found, res)
  THEN Append(found, res)
  ELSE found

\* one iteration of the loop over the boundaries, res being what
\* solve_intersection returned
boundary_result(found, res) ==
  IF ~res.v.some THEN found
  ELSE boundary_checked(found, res.v.comp, normalized(res.v.comp))

(***************************************************************************)
(* Project manager (delta/project_manager.py) and the older controller of  *)
(* core/project_controller.py.  A uid is the number of the uuid4 that      *)
(* produced it, issued the number produced so far.  comp_map and line_map  *)
(* hold the objects of the two lists of the project: an update of such an  *)
(* object is made in the list and in the map.  An operation gives          *)
(* Done(r, m): what it returned or raised, and the manager after it.       *)
(***************************************************************************)
\* max_undo_size of ProjectManager.__init__
max_undo_size == 1

MAX_UNDO_STACK_SIZE == 50

Optional(v) == [some |-> TRUE, v |-> v]

Done(r, m) == [ret |-> r, manager |-> m]

NamedComposition(uid, name, composition) ==
  [uid |-> uid, name |-> name, composition |-> composition]

\* names within COMP_NAME_MAX_LENGTH
validate_name(v) == IF v = "" THEN "Unnamed" ELSE v

TieLine(uid, start_uid, end_uid) ==
  [uid |-> uid, start_uid |-> start_uid, end_uid |-> end_uid]

ProjectData == [compositions |-> <<>>, lines |-> <<>>]

\* ProjectManager.__init__
ProjectManager ==
  [class |-> "ProjectManager", project |-> ProjectData, comp_map |-> <<>>,
   line_map |-> <<>>, undo_stack |-> <<>>, redo_stack |-> <<>>,
   is_modified |-> FALSE, issued |-> 0]

\* ProjectController.__init__
ProjectController == [ProjectManager EXCEPT !.class = "ProjectController"]

\* the stack without its newest entry where it exceeds the limit
trimmed_of_newest(stack, limit) ==
  IF Len(stack) > limit THEN SubSeq(stack, 1, Len(stack) - 1) ELSE stack

\* the stack without its oldest entry where it exceeds the limit
trimmed(stack, limit) == IF Len(stack) > limit THEN Tail(stack) ELSE stack

\* a push that leaves the redo stack as it is
_save_undo_state_alone(m) ==
  [m EXCEPT !.undo_stack = trimmed(Append(@, m.project), max_undo_size)]

_save_undo_state(m) ==
  [m EXCEPT !.undo_stack = trimmed(Append(@, m.project), max_undo_size),
            !.redo_stack = <<>>]

\* save_undo and enable_undo are True, batch mode is off
_notify_change(m) == _save_undo_state([m EXCEPT !.is_modified = TRUE])

core_save_undo_state(m) ==
  [m EXCEPT !.undo_stack = trimmed(Append(@, m.project), MAX_UNDO_STACK_SIZE),
            !.redo_stack = <<>>]

core_notify_change(m) == core_save_undo_state(m)

get_composition(m, uid) ==
  IF uid \in DOMAIN m.comp_map THEN Ok(m.comp_map[uid])
  ELSE Raise("EntityNotFoundError")

\* compositions.append(comp) and _comp_map[comp.uid] = comp
composition_added(m, comp) ==
  [m EXCEPT !.project.compositions = Append(@, comp),
            !.comp_map = (comp.uid :> comp) @@ @,
            !.issued = comp.uid]

create_composition(m, name, composition, validate) ==
  IF validate /\ ~is_physically_valid(composition)
  THEN Done(Raise("ValidationError"), m)
  ELSE Done(Ok(m.issued + 1),
            _notify_change(composition_added(
              m, NamedComposition(m.issued + 1, validate_name(name),
                                  composition))))

\* core/models.py has no Composition.is_physically_valid, and its
\* NamedComposition keeps the name as given
core_create_composition(m, name, composition, validate) ==
  IF validate THEN Done(Raise("AttributeError"), m)
  ELSE Done(Ok(m.issued + 1),
            core_notify_change(composition_added(
              m, NamedComposition(m.issued + 1, name, composition))))

\* {line.start_uid, line.end_uid} == {start_uid, end_uid}
same_endpoints(line, s, e) == {line.start_uid, line.end_uid} = {s, e}

line_exists(lines, s, e) ==
  \E i \in 1..Len(lines) : same_endpoints(lines[i], s, e)

\* lines.append(line) and _line_map[line.uid] = line
line_added(m, line) ==
  [m EXCEPT !.project.lines = Append(@, line),
            !.line_map = (line.uid :> line) @@ @,
            !.issued = line.uid]

\* start_comp, end_comp what get_composition gave, close the result of
\* normalized_is_close
line_between(m, s, e, start_comp, end_comp, close) ==
  IF ~start_comp.ok THEN Done(start_comp, m)
  ELSE IF ~end_comp.ok THEN Done(end_comp, m)
  ELSE IF close THEN Done(Raise("ValidationError"), m)
  ELSE IF line_exists(m.project.lines, s, e)
    THEN Done(Raise("DuplicateEntityError"), m)
  ELSE Done(Ok(m.issued + 1),
            _notify_change(line_added(m, TieLine(m.issued + 1, s, e))))

\* normalized_is_close of the compositions of two objects found
close_found(start_comp, end_comp) ==
  /\ start_comp.ok /\ end_comp.ok
  /\ normalized_is_close(start_comp.v.composition, end_comp.v.composition,
                         COMPOSITION_COMPARISON_ATOL)

create_line_found(m, s, e, start_comp, end_comp) ==
  line_between(m, s, e, start_comp, end_comp,
               close_found(start_comp, end_comp))

create_line(m, start_uid, end_uid) ==
  IF start_uid = end_uid THEN Done(Raise("ValidationError"), m)
  ELSE create_line_found(m, start_uid, end_uid,
                         get_composition(m, start_uid),
                         get_composition(m, end_uid))

\* core/models.py: math.isclose(n1[i], n2[i], rel_tol=rtol), n1 and n2 the
\* two normalized results
core_is_close(n1, n2, rtol) ==
  IF ~n1.ok \/ ~n2.ok THEN FALSE
  ELSE \A i \in 1..3 :
         RatLe(RatAbs(RatSub(n1.v[i], n2.v[i])),
               RatMul(rtol, RatMaxAbs(n1.v[i], n2.v[i])))

\* rtol = 1e-5
core_normalized_is_close(self, other) ==
  core_is_close(core_normalized(self), core_normalized(other),
                Rat(1, <<1>>, NatPow10(5)))

core_close_found(start_comp, end_comp) ==
  /\ start_comp.ok /\ end_comp.ok
  /\ core_normalized_is_close(start_comp.v.composition,
                              end_comp.v.composition)

core_line_between(m, s, e, start_comp, end_comp, close) ==
  IF ~start_comp.ok THEN Done(start_comp, m)
  ELSE IF ~end_comp.ok THEN Done(end_comp, m)
  ELSE IF close THEN Done(Raise("ValidationError"), m)
  ELSE IF line_exists(m.project.lines, s, e)
    THEN Done(Raise("DuplicateEntityError"), m)
  ELSE Done(Ok(m.issued + 1),
            core_notify_change(line_added(m, TieLine(m.issued + 1, s, e))))

core_create_line_found(m, s, e, start_comp, end_comp) ==
  core_line_between(m, s, e, start_comp, end_comp,
                    core_close_found(start_comp, end_comp))

core_create_line(m, start_uid, end_uid) ==
  IF start_uid = end_uid THEN Done(Raise("ValidationError"), m)
  ELSE core_create_line_found(m, start_uid, end_uid,
                              get_composition(m, start_uid),
                              get_composition(m, end_uid))

\* CompositionUpdate: name, a, b, c, each None or a value
CompositionUpdate(name, a, b, c) == [name |-> name, a |-> a, b |-> b, c |-> c]

has_coordinate_changes(update) == update.a.some \/ update.b.some \/ update.c.some

\* the coordinates of the update where given, those of comp elsewhere
new_composition(update, comp) ==
  Composition(IF update.a.some THEN update.a.v ELSE comp.a,
              IF update.b.some THEN update.b.v ELSE comp.b,
              IF update.c.some THEN update.c.v ELSE comp.c)

\* the other end of a line that starts at composition_uid only
other_uid_from_start(line, composition_uid) ==
  IF line.start_uid = composition_uid THEN Optional(line.end_uid) ELSE None

\* other_uid of _check_degenerate_lines
other_uid(line, composition_uid) ==
  IF line.start_uid = composition_uid THEN Optional(line.end_uid)
  ELSE IF line.end_uid = composition_uid THEN Optional(line.start_uid)
  ELSE None

\* the composition at other is known and close to new_coords
degenerate_with(m, other, new_coords) ==
  /\ other.some
  /\ other.v \in DOMAIN m.comp_map
  /\ normalized_is_close(new_coords, m.comp_map[other.v].composition,
                         COMPOSITION_COMPARISON_ATOL)

\* TRUE where _check_degenerate_lines raises ValidationError
_check_degenerate_lines(m, composition_uid, new_coords) ==
  \E i \in 1..Len(m.project.lines) :
    degenerate_with(m, other_uid(m.project.lines[i], composition_uid),
                    new_coords)

\* CompositionUpdate.apply_to
apply_to(update, comp) ==
  [comp EXCEPT
     !.name = IF update.name.some THEN validate_name(update.name.v) ELSE @,
     !.composition = IF has_coordinate_changes(update)
                     THEN new_composition(update, @) ELSE @]

\* comp, an object of the list and of the map, becomes changed
composition_replaced(m, changed) ==
  [m EXCEPT
     !.project.compositions =
        [i \in 1..Len(@) |-> IF @[i].uid = changed.uid THEN changed ELSE @[i]],
     !.comp_map[changed.uid] = changed]

\* the checks of validate = True for the coordinates new_coords
update_rejected(m, uid, new_coords) ==
  \/ ~is_physically_valid(new_coords)
  \/ _check_degenerate_lines(m, uid, new_coords)

\* comp what get_composition gave
update_found(m, uid, update, validate, comp) ==
  IF ~comp.ok THEN Done(comp, m)
  ELSE IF /\ validate /\ has_coordinate_changes(update)
          /\ update_rejected(m, uid, new_composition(update, comp.v.composition))
    THEN Done(Raise("ValidationError"), m)
  ELSE Done(Ok(None),
            _notify_change(composition_replaced(m, apply_to(update, comp.v))))

update_composition(m, uid, update, validate) ==
  update_found(m, uid, update, validate, get_composition(m, uid))

_rebuild_cache(m) ==
  [m EXCEPT
     !.comp_map = [u \in {m.project.compositions[i].uid :
                            i \in 1..Len(m.project.compositions)} |->
                     CHOOSE c \in {m.project.compositions[i] :
                                     i \in 1..Len(m.project.compositions)} :
                       c.uid = u],
     !.line_map = [u \in {m.project.lines[i].uid :
                            i \in 1..Len(m.project.lines)} |->
                     CHOOSE l \in {m.project.lines[i] :
                                     i \in 1..Len(m.project.lines)} :
                       l.uid = u]]

\* _notify_change(save_undo=False)
undo(m) ==
  IF m.undo_stack = <<>> THEN Done(Ok(FALSE), m)
  ELSE Done(Ok(TRUE),
            _rebuild_cache(
              [m EXCEPT !.redo_stack = Append(@, m.project),
                        !.project = m.undo_stack[Len(m.undo_stack)],
                        !.undo_stack = SubSeq(@, 1, Len(@) - 1),
                        !.is_modified = TRUE]))

\* a redo that moves the snapshots and leaves the project as it is
redo_unrestored(m) ==
  IF m.redo_stack = <<>> THEN Done(Ok(FALSE), m)
  ELSE Done(Ok(TRUE),
            _rebuild_cache(
              [m EXCEPT !.undo_stack = Append(@, m.project),
                        !.redo_stack = SubSeq(@, 1, Len(@) - 1),
                        !.is_modified = TRUE]))

redo(m) ==
  IF m.redo_stack = <<>> THEN Done(Ok(FALSE), m)
  ELSE Done(Ok(TRUE),
            _rebuild_cache(
              [m EXCEPT !.undo_stack = Append(@, m.project),
                        !.project = m.redo_stack[Len(m.redo_stack)],
                        !.redo_stack = SubSeq(@, 1, Len(@) - 1),
                        !.is_modified = TRUE]))

\* core/project_controller.py: _notify_change(save_undo=False) of a
\* controller, which has no is_modified
core_undo(m) ==
  IF m.undo_stack = <<>> THEN Done(Ok(FALSE), m)
  ELSE Done(Ok(TRUE),
            _rebuild_cache(
              [m EXCEPT !.redo_stack = Append(@, m.project),
                        !.project = m.undo_stack[Len(m.undo_stack)],
                        !.undo_stack = SubSeq(@, 1, Len(@) - 1)]))

core_redo(m) ==
  IF m.redo_stack = <<>> THEN Done(Ok(FALSE), m)
  ELSE Done(Ok(TRUE),
            _rebuild_cache(
              [m EXCEPT !.undo_stack = Append(@, m.project),
                        !.project = m.redo_stack[Len(m.redo_stack)],
                        !.redo_stack = SubSeq(@, 1, Len(@) - 1)]))

get_line(m, uid) ==
  IF uid \in DOMAIN m.line_map THEN Ok(m.line_map[uid])
  ELSE Raise("EntityNotFoundError")

\* the uids of a list of compositions or of lines
uids_of(entities) == {entities[i].uid : i \in 1..Len(entities)}

\* [p for p in entities if p.uid not in uids]
without(entities, uids) ==
  LET kept(p) == p.uid \notin uids
  IN  SelectSeq(entities, kept)

\* a rejected assignment that left the object as it was
discarded(old, new) == old

\* A model with validate_assignment: pydantic sets the field and then runs
\* the model validators, so the object is the new one also when a validator
\* raises pydantic's ValidationError.
assigned(old, new) == new

\* TRUE where TieLine.validate_different_endpoints accepts the line
validate_different_endpoints(line) == line.start_uid # line.end_uid

\* TRUE where ProjectData.validate_line_references accepts the project
validate_line_references(project) ==
  \A i \in 1..Len(project.lines) :
    /\ project.lines[i].start_uid \in uids_of(project.compositions)
    /\ project.lines[i].end_uid \in uids_of(project.compositions)

\* a line other than line_uid joins s and e
other_line_exists(lines, line_uid, s, e) ==
  \E i \in 1..Len(lines) :
    lines[i].uid # line_uid /\ same_endpoints(lines[i], s, e)

\* line, an object of the list and of the map, becomes changed
line_replaced(m, changed) ==
  [m EXCEPT
     !.project.lines =
        [i \in 1..Len(@) |-> IF @[i].uid = changed.uid THEN changed ELSE @[i]],
     !.line_map[changed.uid] = changed]

\* line.end_uid = end_uid, with started the line after line.start_uid was set
end_assigned(m, line, started, e) ==
  IF ~validate_different_endpoints([started EXCEPT !.end_uid = e])
  THEN Done(Raise("PydanticValidationError"),
            line_replaced(m, assigned(started, [started EXCEPT !.end_uid = e])))
  ELSE Done(Ok(None),
            _notify_change(line_replaced(m, [started EXCEPT !.end_uid = e])))

\* line.start_uid = start_uid, then line.end_uid = end_uid
endpoints_assigned(m, line, s, e) ==
  IF ~validate_different_endpoints([line EXCEPT !.start_uid = s])
  THEN Done(Raise("PydanticValidationError"),
            line_replaced(m, assigned(line, [line EXCEPT !.start_uid = s])))
  ELSE end_assigned(m, line, [line EXCEPT !.start_uid = s], e)

\* start_comp, end_comp what get_composition gave, close the result of
\* normalized_is_close, line what get_line gave
endpoints_between(m, line_uid, s, e, start_comp, end_comp, close, line) ==
  IF ~start_comp.ok THEN Done(start_comp, m)
  ELSE IF ~end_comp.ok THEN Done(end_comp, m)
  ELSE IF close THEN Done(Raise("ValidationError"), m)
  ELSE IF other_line_exists(m.project.lines, line_uid, s, e)
    THEN Done(Raise("DuplicateEntityError"), m)
  ELSE IF ~line.ok THEN Done(line, m)
  ELSE endpoints_assigned(m, line.v, s, e)

update_line_endpoints_found(m, line_uid, s, e, start_comp, end_comp) ==
  endpoints_between(m, line_uid, s, e, start_comp, end_comp,
                    close_found(start_comp, end_comp), get_line(m, line_uid))

update_line_endpoints(m, line_uid, start_uid, end_uid) ==
  IF start_uid = end_uid THEN Done(Raise("ValidationError"), m)
  ELSE update_line_endpoints_found(m, line_uid, start_uid, end_uid,
                                   get_composition(m, start_uid),
                                   get_composition(m, end_uid))

\* del self._comp_map[uid] and the assignment of project.compositions
composition_removed(m, uid) ==
  [m EXCEPT
     !.comp_map = [u \in DOMAIN @ \ {uid} |-> @[u]],
     !.project = assigned(@, [@ EXCEPT !.compositions = without(@, {uid})])]

\* lines_to_remove of delete_composition
lines_to_remove(lines, uid) ==
  {lines[i].uid : i \in {j \in 1..Len(lines) :
                           lines[j].start_uid = uid \/ lines[j].end_uid = uid}}

\* del self._line_map[line_uid] of each, and the assignment of project.lines
lines_removed(m, uids) ==
  [m EXCEPT
     !.line_map = [u \in DOMAIN @ \ uids |-> @[u]],
     !.project = assigned(@, [@ EXCEPT !.lines = without(@, uids)])]

\* what follows the assignment of project.lines, m the manager after it
lines_assigned(m) ==
  IF ~validate_line_references(m.project)
  THEN Done(Raise("PydanticValidationError"), m)
  ELSE Done(Ok(None), _notify_change(m))

\* what follows the assignment of project.compositions, m the manager
\* after it
compositions_assigned(m, uid) ==
  IF ~validate_line_references(m.project)
  THEN Done(Raise("PydanticValidationError"), m)
  ELSE lines_assigned(lines_removed(m, lines_to_remove(m.project.lines, uid)))

delete_composition(m, uid) ==
  IF uid \notin DOMAIN m.comp_map THEN Done(Raise("EntityNotFoundError"), m)
  ELSE compositions_assigned(composition_removed(m, uid), uid)

delete_line(m, uid) ==
  IF uid \notin DOMAIN m.line_map THEN Done(Raise("EntityNotFoundError"), m)
  ELSE lines_assigned(lines_removed(m, {uid}))

\* core/models.py: dataclasses, whose assignments run no validator
core_lines_removed(m, uids) ==
  [m EXCEPT !.line_map = [u \in DOMAIN @ \ uids |-> @[u]],
            !.project.lines = without(@, uids)]

core_composition_removed(m, uid) ==
  [m EXCEPT !.comp_map = [u \in DOMAIN @ \ {uid} |-> @[u]],
            !.project.compositions = without(@, {uid})]

core_delete_composition_found(m, uid) ==
  Done(Ok(None),
       core_notify_change(
         core_lines_removed(m, lines_to_remove(m.project.lines, uid))))

core_delete_composition(m, uid) ==
  IF uid \notin DOMAIN m.comp_map THEN Done(Raise("EntityNotFoundError"), m)
  ELSE core_delete_composition_found(core_composition_removed(m, uid), uid)

clear_undo_history(m) == [m EXCEPT !.undo_stack = <<>>, !.redo_stack = <<>>]

\* _is_modified = False, then _notify_change(save_undo=False), which sets
\* _is_modified outside batch mode
reset_notified(m) ==
  [[m EXCEPT !.is_modified = FALSE] EXCEPT !.is_modified = TRUE]

new_project(m) ==
  Done(Ok(None),
       reset_notified(clear_undo_history(
         _rebuild_cache([m EXCEPT !.project = ProjectData]))))

\* the file holds what the serializer wrote of the project
save_to_file(m) == Done(Ok(None), [m EXCEPT !.is_modified = FALSE])

\* loaded: new_project, what the serializer read from the file
load_from_file(m, loaded) ==
  Done(Ok(None),
       reset_notified(clear_undo_history(
         _rebuild_cache([m EXCEPT !.project = loaded]))))

(***************************************************************************)
(* Inputs.  A raw coordinate is m * 10^-k for a mantissa m and a number k  *)
(* of decimal places.                                                      *)
(***************************************************************************)
MaxCoord == 2
LargeCoord == 100000
TinyDigits == 13
NearScale == 1000000

Coord(m, k) ==
  IF m < 0 THEN Rat(-1, NatFromInt(-m), NatPow10(k))
  ELSE Rat(1, NatFromInt(m), NatPow10(k))

\* small integers and one value far below EPSILON_ZERO
SmallCoords ==
  {Coord(m, 0) : m \in -MaxCoord..MaxCoord} \cup {Coord(1, TinyDigits)}

\* a large pair that cancels to 1, beside a value below EPSILON_ZERO
ExtremeCoords ==
  {Coord(LargeCoord, 0), Coord(1 - LargeCoord, 0), Coord(2, TinyDigits)}

Compositions ==
  {Composition(a, b, c) : a \in SmallCoords, b \in SmallCoords, c \in SmallCoords}
  \cup {Composition(t[1], t[2], t[3]) :
          t \in {u \in ExtremeCoords \X ExtremeCoords \X ExtremeCoords :
                   u[1] # u[2] /\ u[1] # u[3] /\ u[2] # u[3]}}

TransformCalls ==
  {[op |-> "round_trip", c |-> c, inv |-> inv] :
     c \in Compositions, inv \in BOOLEAN}

\* vertices, two edge midpoints, the centroid, a point outside the triangle
\* on the parallel to AB through C, the same point moved off that parallel
\* by less than EPSILON_ZERO, and a composition of total zero
LinePoints ==
  << vertex_a, vertex_b, vertex_c,
     Composition(Coord(0, 0), Coord(1, 0), Coord(1, 0)),
     Composition(Coord(1, 0), Coord(0, 0), Coord(1, 0)),
     Composition(Coord(1, 0), Coord(1, 0), Coord(1, 0)),
     Composition(Coord(1, 0), Coord(-1, 0), Coord(1, 0)),
     Composition(RatAdd(Coord(1, 0), Coord(1, TinyDigits)), Coord(-1, 0),
                 Coord(1, 0)),
     Composition(Coord(1, 0), Coord(-1, 0), Coord(0, 0)) >>

\* the lines through two different points, and one of a single point
Lines ==
  {<<LinePoints[ij[1]], LinePoints[ij[2]]>> :
     ij \in {k \in (1..Len(LinePoints)) \X (1..Len(LinePoints)) :
               k[1] < k[2] \/ k = <<1, 1>>}}

IntersectionCalls ==
  {[op |-> "solve_intersection", p1 |-> l[1], p2 |-> l[2],
    p3 |-> m[1], p4 |-> m[2]] : l \in Lines, m \in Lines}

\* points of the line AB (both vertices, the midpoint, one beyond each end,
\* two within 1e-6 and 1e-7 of A), a point off the line and a total of zero
LeverPoints ==
  { vertex_a, vertex_b, vertex_c,
    Composition(Coord(1, 0), Coord(1, 0), Coord(0, 0)),
    Composition(Coord(-1, 0), Coord(2, 0), Coord(0, 0)),
    Composition(Coord(2, 0), Coord(-1, 0), Coord(0, 0)),
    Composition(Coord(NearScale, 0), Coord(1, 0), Coord(0, 0)),
    Composition(Coord(10 * NearScale, 0), Coord(1, 0), Coord(0, 0)),
    Composition(Coord(0, 0), Coord(0, 0), Coord(0, 0)) }

LeverCalls ==
  {[op |-> o, s |-> s, e |-> e, p |-> p] :
     o \in {"get_lever_fraction", "core_get_lever_fraction"},
     s \in LeverPoints, e \in LeverPoints, p \in LeverPoints}

MaxSum2 == 100
MaxW3 == 4
MaxDev == 7

Fractions(w) ==
  LET t == sum(w)
  IN  IF t = 0 THEN [i \in 1..Len(w) |-> RatInt(0)]
      ELSE [i \in 1..Len(w) |-> RatFrac(w[i], t)]

\* the two molar fractions i / t and (t - i) / t of every total t
BinaryFractions ==
  {Fractions(<<it[1], it[2] - it[1]>>) :
     it \in {u \in (0..MaxSum2) \X (1..MaxSum2) : u[1] <= u[2]}}

TernaryWeights == (0..MaxW3) \X (0..MaxW3) \X (0..MaxW3)

\* 0.5 + j * 1e-5 beside 0.5 - j * 1e-5
NearHalf == {<<Coord(50000 + j, 5), Coord(50000 - j, 5)>> : j \in 0..MaxDev}

\* lists of one value, of large ratios, of values below and near
\* EPSILON_ZERO, and of values of both signs
SpecialLists ==
  { <<>>, <<Coord(0, 0)>>, <<Coord(1, 0)>>, <<Coord(25, 1)>>,
    <<Coord(1, 15)>>, <<Coord(1, 12)>>, <<Coord(1, 10)>>,
    <<Coord(0, 0), Coord(0, 0)>>,
    <<Coord(1, 13), Coord(1, 13)>>,
    <<Coord(200, 0), Coord(1, 0)>>,
    Fractions(<<200, 1>>), Fractions(<<1, 999>>), Fractions(<<1, 199>>),
    Fractions(<<7, 99993>>), Fractions(<<1, 1, 24999>>),
    Fractions(<<5, 3, 22>>),
    <<Coord(1, 10), RatSub(Coord(1, 0), Coord(1, 10))>>,
    <<Coord(1, 15), Coord(1, 0)>>,
    <<Coord(-1, 0), Coord(2, 0)>>, <<Coord(2, 0), Coord(-1, 0)>>,
    <<Coord(-1, 0), Coord(-1, 0)>>, <<Coord(1, 0), Coord(-1, 0)>>,
    <<Coord(-1, 0), Coord(3, 0), Coord(1, 0)>> }

RatioLists ==
  BinaryFractions
  \cup {Fractions(w) : w \in TernaryWeights}
  \cup {[i \in 1..3 |-> Coord(w[i], 0)] : w \in TernaryWeights}
  \cup NearHalf \cup SpecialLists

RatioCalls == {[op |-> "find_integer_ratio", floats |-> l] : l \in RatioLists}

\* points beyond the vertex A on the lines AB and CA, two of them within
\* EPSILON_BOUNDARY of the triangle and two further out
OutsidePoints ==
  { Composition(Coord(1, 0), Coord(-5, 10), Coord(0, 0)),
    Composition(Coord(1, 0), Coord(0, 0), Coord(-5, 10)),
    Composition(Coord(1, 0), Coord(-2, 9), Coord(0, 0)),
    Composition(Coord(1, 0), Coord(0, 0), Coord(-2, 9)) }

\* the lines of Lines, and those from a point beyond A to another one, to
\* B, to C and to the centroid
BoundaryLines ==
  Lines \cup
  {l \in OutsidePoints \X
           (OutsidePoints \cup
            {vertex_b, vertex_c,
             Composition(Coord(1, 0), Coord(1, 0), Coord(1, 0))}) :
     l[1] # l[2]}

BoundaryCalls ==
  {[op |-> "get_line_triangle_intersections", p1 |-> l[1], p2 |-> l[2]] :
     l \in BoundaryLines}

\* pairs of large coordinates that cancel: 1e308 and -1e308 beside 1e-5,
\* 1e300 and -1e300 beside 1
HugeCompositions ==
  { Composition(Rat(1, NatPow10(308), <<1>>), Rat(-1, NatPow10(308), <<1>>),
                Coord(1, 5)),
    Composition(Rat(1, NatPow10(300), <<1>>), Rat(-1, NatPow10(300), <<1>>),
                Coord(1, 0)) }

NormalizedCalls ==
  {[op |-> "normalized", c |-> c] : c \in Compositions \cup HugeCompositions}

\* totals of exactly EPSILON_ZERO and of twice that
EpsilonCompositions ==
  { Composition(Coord(1, 12), Coord(0, 0), Coord(0, 0)),
    Composition(Coord(2, 12), Coord(0, 0), Coord(0, 0)),
    Composition(Coord(-1, 12), Coord(0, 0), Coord(0, 0)) }

ValidCalls ==
  {[op |-> "is_physically_valid", c |-> c] :
     c \in Compositions \cup OutsidePoints \cup EpsilonCompositions}

\* the compositions of TestCompositionComparison, one at exactly 5e-5 from
\* the first, totals of zero and below zero, and a total of 1e-13 that a
\* factor of 1e13 makes 1
ClosePoints ==
  { Composition(Coord(5, 1), Coord(3, 1), Coord(2, 1)),
    Composition(Coord(50004, 5), Coord(29998, 5), Coord(19998, 5)),
    Composition(Coord(50005, 5), Coord(29995, 5), Coord(2, 1)),
    Composition(Coord(5001, 4), Coord(2999, 4), Coord(2, 1)),
    Composition(Coord(501, 3), Coord(299, 3), Coord(2, 1)),
    Composition(Coord(1, 5), Coord(99998, 5), Coord(1, 5)),
    Composition(Coord(15, 6), Coord(99997, 5), Coord(15, 6)),
    Composition(Coord(0, 0), Coord(0, 0), Coord(0, 0)),
    Composition(Coord(1, 0), Coord(1, 0), Coord(1, 0)),
    Composition(Coord(1, 0), Coord(-1, 0), Coord(0, 0)),
    Composition(Coord(-5, 0), Coord(-3, 0), Coord(-2, 0)),
    Composition(Coord(5, 14), Coord(3, 14), Coord(2, 14)) }

Some_atol(atol) == [some |-> TRUE, v |-> atol]

\* atol = None, 0.01 and 1e-9
Tolerances == {None, Some_atol(Coord(1, 2)), Some_atol(Coord(1, 9))}

\* factors for the raw coordinates of an argument: 2, -3, 1e-13 and 1e13
Factors == {Coord(2, 0), Coord(-3, 0), Coord(1, 13), Rat(1, NatPow10(13), <<1>>)}

CloseCalls ==
  {[op |-> "normalized_is_close", x |-> x, y |-> y, atol |-> t] :
     x \in ClosePoints, y \in ClosePoints, t \in Tolerances}

CompositionCalls == NormalizedCalls \cup ValidCalls \cup CloseCalls

\* the vertices, the midpoints of AB and BC, the centroid, the point of
\* test_nearly_collinear, a total of zero, and two points of AB at 1e-7 and
\* at 1e-3 from A
CollinearPoints ==
  { vertex_a, vertex_b, vertex_c,
    Composition(Coord(1, 0), Coord(1, 0), Coord(0, 0)),
    Composition(Coord(0, 0), Coord(1, 0), Coord(1, 0)),
    Composition(Coord(1, 0), Coord(1, 0), Coord(1, 0)),
    Composition(Coord(0, 0), Coord(1, 0), Coord(1, 4)),
    Composition(Coord(0, 0), Coord(0, 0), Coord(0, 0)),
    Composition(Coord(1, 0), Coord(1, 7), Coord(0, 0)),
    Composition(Coord(1, 0), Coord(1, 3), Coord(0, 0)) }

\* the first argument: A, the midpoint of BC and the total of zero
CollinearStarts ==
  { vertex_a,
    Composition(Coord(0, 0), Coord(1, 0), Coord(1, 0)),
    Composition(Coord(0, 0), Coord(0, 0), Coord(0, 0)) }

CollinearCalls ==
  {[op |-> o, p1 |-> p1, p2 |-> p2, p3 |-> p3, atol |-> t] :
     o \in {"are_compositions_collinear", "is_point_on_line"},
     p1 \in CollinearStarts, p2 \in CollinearPoints, p3 \in CollinearPoints,
     t \in Tolerances}
  \cup
  {[op |-> "get_triangle_area", p1 |-> p1, p2 |-> p2, p3 |-> p3] :
     p1 \in CollinearStarts, p2 \in CollinearPoints, p3 \in CollinearPoints}

\* the uids of a run
MaxUids == 3

Uids == 1..MaxUids

\* test_degenerate_lines.py: (0.5, 0.3, 0.2), (0.50001, 0.29999, 0.2) within
\* the tolerance of it, and (0.3, 0.5, 0.2)
ProjectCompositions ==
  { Composition(Coord(5, 1), Coord(3, 1), Coord(2, 1)),
    Composition(Coord(50001, 5), Coord(29999, 5), Coord(2, 1)),
    Composition(Coord(3, 1), Coord(5, 1), Coord(2, 1)) }

\* a new name alone, the coordinates (0.5, 0.3, 0.2), and c = 0.2 alone
CompositionUpdates ==
  { CompositionUpdate(Optional("A_new"), None, None, None),
    CompositionUpdate(None, Optional(Coord(5, 1)), Optional(Coord(3, 1)),
                      Optional(Coord(2, 1))),
    CompositionUpdate(None, None, None, Optional(Coord(2, 1))) }

MaxIssued == 3
MaxSnapshots == 2

Issued == 1..MaxIssued

\* (0.5, 0.3, 0.2), of which a second composition is a close one, and
\* (0.3, 0.5, 0.2)
SessionCompositions ==
  { Composition(Coord(5, 1), Coord(3, 1), Coord(2, 1)),
    Composition(Coord(3, 1), Coord(5, 1), Coord(2, 1)) }

\* test_degenerate_lines.py: CompositionUpdate(a=0.5, b=0.3, c=0.2)
SessionUpdate ==
  CompositionUpdate(None, Optional(Coord(5, 1)), Optional(Coord(3, 1)),
                    Optional(Coord(2, 1)))

\* files of an empty project and of a project of one composition, whose
\* uid no manager issues
ProjectFiles ==
  { ProjectData,
    [compositions |->
       << NamedComposition(0, "A", Composition(Coord(1, 0), Coord(0, 0),
                                               Coord(0, 0))) >>,
     lines |-> <<>>] }

\* x: the vertices' and the centroid's, and values within 1e-13 of a vertex
\* _fallback_scaling is called with lists that sum to one: every pair and
\* triple of non-negative multiples of 1/FallbackGrid, and a list of Crowd
\* equal entries of 0.0021551 closed by the rest of the unit
FallbackGrid == 9

Crowd == 464

FallbackPairs ==
  {<<RatFrac(i, FallbackGrid), RatFrac(FallbackGrid - i, FallbackGrid)>> :
     i \in 0..FallbackGrid}

FallbackTriples ==
  {<<RatFrac(w[1], FallbackGrid), RatFrac(w[2], FallbackGrid),
     RatFrac(FallbackGrid - w[1] - w[2], FallbackGrid)>> :
     w \in {v \in (0..FallbackGrid) \X (0..FallbackGrid) :
              v[1] + v[2] <= FallbackGrid}}

Crowded ==
  [i \in 1..(Crowd + 1) |->
     IF i <= Crowd THEN RatFrac(21551, 10000000)
     ELSE RatSub(RatInt(1),
                 RatMul(RatInt(Crowd), RatFrac(21551, 10000000)))]

FallbackCalls ==
  {[op |-> "_fallback_scaling", normalized_floats |-> l] :
     l \in FallbackPairs \cup FallbackTriples \cup {Crowded}}

CartesianXs ==
  {Coord(0, 0), Coord(5, 1), Coord(1, 0), Coord(1, 13), Coord(-1, 13),
   RatSub(Coord(1, 0), Coord(1, 13)), Coord(5, 13), Coord(2, 0)}

\* y / H: 0, 1/2, 1, the -1e-17 of test_clamping, values on both sides of
\* EPSILON_ZERO and EPSILON_ZERO itself, and values within 1e-13 of 1
CartesianYs ==
  {Coord(0, 0), Coord(5, 1), Coord(1, 0), Coord(-1, 17), Coord(1, 13),
   Coord(1, 12), Coord(-2, 12), RatSub(Coord(1, 0), Coord(1, 13)),
   RatAdd(Coord(1, 0), Coord(1, 13))}

CartesianCalls ==
  {[op |-> "cart_to_bary", x |-> x, yh |-> yh, inv |-> inv] :
     x \in CartesianXs, yh \in CartesianYs, inv \in BOOLEAN}

(***************************************************************************)
(* Operations.  call is the call being made, ret what it returned once     *)
(* done.                                                                   *)
(***************************************************************************)
NoRet == [ok |-> FALSE, err |-> "pending"]

Start(calls) ==
  /\ call \in calls
  /\ ret = NoRet
  /\ done = FALSE
  /\ pc = "call"
  /\ tried = <<>>
  /\ intersections = <<>>
  /\ manager = ProjectManager

InitTransform == Start(TransformCalls)

InitIntersection == Start(IntersectionCalls)

InitLever == Start(LeverCalls)

InitRatio == Start(RatioCalls)

RoundTrip ==
  /\ ~done /\ call.op = "round_trip"
  /\ ret' = round_trip(call.c, call.inv)
  /\ done' = TRUE
  /\ UNCHANGED <<call, pc, tried, intersections, manager>>

SolveIntersection ==
  /\ ~done /\ call.op = "solve_intersection"
  /\ ret' = solve_intersection(call.p1, call.p2, call.p3, call.p4)
  /\ done' = TRUE
  /\ UNCHANGED <<call, pc, tried, intersections, manager>>

GetLeverFraction ==
  /\ ~done /\ call.op = "get_lever_fraction"
  /\ ret' = get_lever_fraction(call.s, call.e, call.p)
  /\ done' = TRUE
  /\ UNCHANGED <<call, pc, tried, intersections, manager>>

CoreGetLeverFraction ==
  /\ ~done /\ call.op = "core_get_lever_fraction"
  /\ ret' = core_get_lever_fraction(call.s, call.e, call.p)
  /\ done' = TRUE
  /\ UNCHANGED <<call, pc, tried, intersections, manager>>

\* find_integer_ratio without its two tests for zero: the division by
\* total_val raises on a total of exactly zero
RatioGuards_unguarded ==
  /\ ~done /\ call.op = "find_integer_ratio" /\ pc = "call"
  /\ IF call.floats = <<>>
     THEN ret' = Ok(<<>>) /\ done' = TRUE /\ pc' = pc
     ELSE IF fsum(call.floats).s = 0
     THEN ret' = Raise("ZeroDivisionError") /\ done' = TRUE /\ pc' = pc
     ELSE ret' = ret /\ done' = done /\ pc' = "loop"
  /\ UNCHANGED <<call, tried, intersections, manager>>

\* find_integer_ratio up to its loop: the returns for an empty list, for
\* values all below EPSILON_ZERO and for a total below EPSILON_ZERO
RatioGuards ==
  /\ ~done /\ call.op = "find_integer_ratio" /\ pc = "call"
  /\ IF call.floats = <<>>
     THEN ret' = Ok(<<>>) /\ done' = TRUE /\ pc' = pc
     ELSE IF \/ \A i \in 1..Len(call.floats) :
                  RatLt(RatAbs(call.floats[i]), EPSILON_ZERO)
             \/ RatLt(RatAbs(fsum(call.floats)), EPSILON_ZERO)
     THEN /\ ret' = Ok([i \in 1..Len(call.floats) |-> 0])
          /\ done' = TRUE /\ pc' = pc
     ELSE ret' = ret /\ done' = done /\ pc' = "loop"
  /\ UNCHANGED <<call, tried, intersections, manager>>

\* one iteration of the loop over the tiers
TryTier ==
  /\ ~done /\ pc = "loop"
  /\ LET limit == tiers[Len(tried) + 1]
         cand  == tier_candidate(normalized_list(call.floats), limit)
     IN  /\ tried' = Append(tried, limit)
         /\ IF cand.valid
            THEN ret' = Ok(cand.integers) /\ done' = TRUE /\ pc' = pc
            ELSE /\ ret' = ret /\ done' = done
                 /\ pc' = IF Len(tried) + 1 = Len(tiers) THEN "fallback"
                          ELSE pc
  /\ UNCHANGED <<call, intersections, manager>>

\* the return after the loop
FallbackScaling ==
  /\ ~done /\ pc = "fallback"
  /\ ret' = Ok(_fallback_scaling(normalized_list(call.floats)))
  /\ done' = TRUE
  /\ UNCHANGED <<call, pc, tried, intersections, manager>>

InitBoundary == Start(BoundaryCalls)

\* one iteration of the loop of get_line_triangle_intersections; tried
\* lists the boundaries already examined
BoundaryStep ==
  /\ ~done /\ call.op = "get_line_triangle_intersections"
  /\ Len(tried) < Len(boundaries)
  /\ intersections' =
       boundary_result(intersections,
                       solve_intersection(call.p1, call.p2,
                                          boundaries[Len(tried) + 1][1],
                                          boundaries[Len(tried) + 1][2]))
  /\ tried' = Append(tried, Len(tried) + 1)
  /\ UNCHANGED <<call, ret, done, pc, manager>>

\* return intersections
BoundaryReturn ==
  /\ ~done /\ call.op = "get_line_triangle_intersections"
  /\ Len(tried) = Len(boundaries)
  /\ ret' = Ok(intersections)
  /\ done' = TRUE
  /\ UNCHANGED <<call, pc, tried, intersections, manager>>

NextBoundary == BoundaryStep \/ BoundaryReturn

SpecBoundary == InitBoundary /\ [][NextBoundary]_vars

InitComposition == Start(CompositionCalls)

Normalized ==
  /\ ~done /\ call.op = "normalized"
  /\ ret' = normalized(call.c)
  /\ done' = TRUE
  /\ UNCHANGED <<call, pc, tried, intersections, manager>>

IsPhysicallyValid ==
  /\ ~done /\ call.op = "is_physically_valid"
  /\ ret' = Ok(is_physically_valid(call.c))
  /\ done' = TRUE
  /\ UNCHANGED <<call, pc, tried, intersections, manager>>

\* atol = COMPOSITION_COMPARISON_ATOL where it is None
NormalizedIsClose ==
  /\ ~done /\ call.op = "normalized_is_close"
  /\ ret' = Ok(normalized_is_close(call.x, call.y,
                                   IF call.atol.some THEN call.atol.v
                                   ELSE COMPOSITION_COMPARISON_ATOL))
  /\ done' = TRUE
  /\ UNCHANGED <<call, pc, tried, intersections, manager>>

NextComposition == Normalized \/ IsPhysicallyValid \/ NormalizedIsClose

SpecComposition == InitComposition /\ [][NextComposition]_vars

InitCartesian == Start(CartesianCalls)

CartToBary ==
  /\ ~done /\ call.op = "cart_to_bary"
  /\ ret' = Ok(cart_to_bary(call.x, call.yh, call.inv))
  /\ done' = TRUE
  /\ UNCHANGED <<call, pc, tried, intersections, manager>>

NextCartesian == CartToBary

SpecCartesian == InitCartesian /\ [][NextCartesian]_vars

InitCollinear == Start(CollinearCalls)

\* tol = TOLERANCE_ON_LINE_STRICT where it is None
AreCompositionsCollinear ==
  /\ ~done /\ call.op = "are_compositions_collinear"
  /\ ret' = Ok(are_compositions_collinear(
                 call.p1, call.p2, call.p3,
                 IF call.atol.some THEN call.atol.v
                 ELSE TOLERANCE_ON_LINE_STRICT))
  /\ done' = TRUE
  /\ UNCHANGED <<call, pc, tried, intersections, manager>>

GetTriangleArea ==
  /\ ~done /\ call.op = "get_triangle_area"
  /\ ret' = Ok(get_triangle_area(call.p1, call.p2, call.p3))
  /\ done' = TRUE
  /\ UNCHANGED <<call, pc, tried, intersections, manager>>

\* p1, p2, p3 are p_start, p_end, p_point
IsPointOnLine ==
  /\ ~done /\ call.op = "is_point_on_line"
  /\ ret' = Ok(is_point_on_line(
                 call.p1, call.p2, call.p3,
                 IF call.atol.some THEN call.atol.v
                 ELSE TOLERANCE_ON_LINE_STRICT))
  /\ done' = TRUE
  /\ UNCHANGED <<call, pc, tried, intersections, manager>>

NextCollinear == AreCompositionsCollinear \/ GetTriangleArea \/ IsPointOnLine

SpecCollinear == InitCollinear /\ [][NextCollinear]_vars

\* a new ProjectManager or ProjectController
InitProject ==
  /\ call = [op |-> "__init__"]
  /\ ret = NoRet
  /\ done = FALSE
  /\ pc = "call"
  /\ tried = <<>>
  /\ intersections = <<>>
  /\ manager \in {ProjectManager, ProjectController}

ProjectOps ==
  {"__init__", "create_composition", "create_line", "update_composition",
   "undo", "redo"}

\* the call c returns or raises as out tells, within the uids of the run
Returns(c, out) ==
  /\ out.manager.issued <= MaxUids
  /\ call' = c
  /\ ret' = out.ret
  /\ manager' = out.manager
  /\ done' = TRUE
  /\ UNCHANGED <<pc, tried, intersections>>

OfManager == call.op \in ProjectOps /\ manager.class = "ProjectManager"

OfController == call.op \in ProjectOps /\ manager.class = "ProjectController"

CreateComposition ==
  /\ OfManager
  /\ \E c \in ProjectCompositions :
       Returns([op |-> "create_composition", name |-> "A", c |-> c,
                validate |-> TRUE],
               create_composition(manager, "A", c, TRUE))

CreateLine ==
  /\ OfManager
  /\ \E s \in Uids, e \in Uids :
       Returns([op |-> "create_line", start_uid |-> s, end_uid |-> e],
               create_line(manager, s, e))

UpdateComposition ==
  /\ OfManager
  /\ \E u \in Uids, up \in CompositionUpdates, v \in BOOLEAN :
       Returns([op |-> "update_composition", uid |-> u, update |-> up,
                validate |-> v],
               update_composition(manager, u, up, v))

Undo ==
  /\ OfManager
  /\ Returns([op |-> "undo"], undo(manager))

Redo ==
  /\ OfManager
  /\ Returns([op |-> "redo"], redo(manager))

CoreCreateComposition ==
  /\ OfController
  /\ \E c \in ProjectCompositions, v \in BOOLEAN :
       Returns([op |-> "create_composition", name |-> "A", c |-> c,
                validate |-> v],
               core_create_composition(manager, "A", c, v))

CoreCreateLine ==
  /\ OfController
  /\ \E s \in Uids, e \in Uids :
       Returns([op |-> "create_line", start_uid |-> s, end_uid |-> e],
               core_create_line(manager, s, e))

NextProject ==
  \/ CreateComposition \/ CreateLine \/ UpdateComposition \/ Undo \/ Redo
  \/ CoreCreateComposition \/ CoreCreateLine

SpecProject == InitProject /\ [][NextProject]_vars

SessionOps ==
  ProjectOps \cup
  {"update_line_endpoints", "delete_composition", "delete_line",
   "new_project", "save_to_file", "load_from_file"}

\* the caller is about to call a method of the manager
Calling == pc = "call" /\ call.op \in {"__init__", "next"}

\* the caller holds the result of a call, or is about to make one
Called == Calling \/ (pc = "return" /\ call.op \in SessionOps)

\* the call c returns or raises as out tells, within the uids and the
\* snapshots of the session; the caller keeps the manager as it was
\* before the call
Answers(c, out) ==
  /\ out.manager.issued <= MaxIssued
  /\ Len(out.manager.undo_stack) <= MaxSnapshots
  /\ call' = c @@ [before |-> manager]
  /\ ret' = out.ret
  /\ manager' = out.manager
  /\ done' = TRUE
  /\ pc' = "return"
  /\ UNCHANGED <<tried, intersections>>

\* the caller drops the result and goes on to its next call
NextCall ==
  /\ pc = "return" /\ call.op \in SessionOps
  /\ call' = [op |-> "next"]
  /\ ret' = NoRet
  /\ done' = FALSE
  /\ pc' = "call"
  /\ UNCHANGED <<tried, intersections, manager>>

InManager == Calling /\ manager.class = "ProjectManager"

InController == Calling /\ manager.class = "ProjectController"

ManagerCreateComposition ==
  /\ InManager
  /\ \E c \in SessionCompositions :
       Answers([op |-> "create_composition", name |-> "A", c |-> c,
                validate |-> TRUE],
               create_composition(manager, "A", c, TRUE))

ManagerCreateLine ==
  /\ InManager
  /\ \E s \in Issued, e \in Issued :
       Answers([op |-> "create_line", start_uid |-> s, end_uid |-> e],
               create_line(manager, s, e))

ManagerUpdateComposition ==
  /\ InManager
  /\ \E u \in Issued :
       Answers([op |-> "update_composition", uid |-> u,
                update |-> SessionUpdate, validate |-> TRUE],
               update_composition(manager, u, SessionUpdate, TRUE))

UpdateLineEndpoints ==
  /\ InManager
  /\ \E l \in Issued, s \in Issued, e \in Issued :
       Answers([op |-> "update_line_endpoints", line_uid |-> l,
                start_uid |-> s, end_uid |-> e],
               update_line_endpoints(manager, l, s, e))

DeleteComposition ==
  /\ InManager
  /\ \E u \in Issued :
       Answers([op |-> "delete_composition", uid |-> u],
               delete_composition(manager, u))

DeleteLine ==
  /\ InManager
  /\ \E u \in Issued :
       Answers([op |-> "delete_line", uid |-> u], delete_line(manager, u))

\* undo and redo also follow a call at once
ManagerUndo ==
  /\ Called /\ manager.class = "ProjectManager"
  /\ Answers([op |-> "undo"], undo(manager))

ManagerRedo ==
  /\ Called /\ manager.class = "ProjectManager"
  /\ Answers([op |-> "redo"], redo(manager))

NewProject ==
  /\ InManager
  /\ Answers([op |-> "new_project"], new_project(manager))

SaveToFile ==
  /\ InManager
  /\ Answers([op |-> "save_to_file"], save_to_file(manager))

LoadFromFile ==
  /\ InManager
  /\ \E f \in ProjectFiles :
       Answers([op |-> "load_from_file", file |-> f],
               load_from_file(manager, f))

ControllerCreateComposition ==
  /\ InController
  /\ \E c \in SessionCompositions :
       Answers([op |-> "create_composition", name |-> "A", c |-> c,
                validate |-> FALSE],
               core_create_composition(manager, "A", c, FALSE))

ControllerCreateLine ==
  /\ InController
  /\ \E s \in Issued, e \in Issued :
       Answers([op |-> "create_line", start_uid |-> s, end_uid |-> e],
               core_create_line(manager, s, e))

CoreDeleteComposition ==
  /\ InController
  /\ \E u \in Issued :
       Answers([op |-> "delete_composition", uid |-> u],
               core_delete_composition(manager, u))

CoreUndo ==
  /\ Called /\ manager.class = "ProjectController"
  /\ Answers([op |-> "undo"], core_undo(manager))

CoreRedo ==
  /\ Called /\ manager.class = "ProjectController"
  /\ Answers([op |-> "redo"], core_redo(manager))

NextManager ==
  \/ ManagerCreateComposition \/ ManagerCreateLine
  \/ ManagerUpdateComposition \/ UpdateLineEndpoints
  \/ DeleteComposition \/ DeleteLine
  \/ ManagerUndo \/ ManagerRedo
  \/ NewProject \/ SaveToFile \/ LoadFromFile

NextController ==
  \/ ControllerCreateComposition \/ ControllerCreateLine
  \/ CoreDeleteComposition \/ CoreUndo \/ CoreRedo

NextSession == NextManager \/ NextController \/ NextCall

SpecSession == InitProject /\ [][NextSession]_vars

InitFallback == Start(FallbackCalls)

\* a direct call of _fallback_scaling
FallbackScalingCall ==
  /\ ~done /\ pc = "call" /\ call.op = "_fallback_scaling"
  /\ ret' = Ok(_fallback_scaling(call.normalized_floats))
  /\ done' = TRUE
  /\ UNCHANGED <<call, pc, tried, intersections, manager>>

NextFallback == FallbackScalingCall

SpecFallback == InitFallback /\ [][NextFallback]_vars

NextTransform == RoundTrip

NextIntersection == SolveIntersection

NextLever == GetLeverFraction \/ CoreGetLeverFraction

NextRatio == RatioGuards \/ TryTier \/ FallbackScaling

Init ==
  \/ Start(TransformCalls \cup IntersectionCalls \cup LeverCalls
            \cup RatioCalls \cup BoundaryCalls \cup CompositionCalls
            \cup CartesianCalls \cup CollinearCalls
            \cup FallbackCalls)
  \/ InitProject

Next ==
  \/ NextTransform \/ NextIntersection \/ NextLever \/ NextRatio
  \/ NextBoundary \/ NextComposition \/ NextCartesian \/ NextCollinear
  \/ NextProject \/ NextSession \/ NextFallback

SpecTransform == InitTransform /\ [][NextTransform]_vars

SpecIntersection == InitIntersection /\ [][NextIntersection]_vars

SpecLever == InitLever /\ [][NextLever]_vars

SpecRatio == InitRatio /\ [][NextRatio]_vars

Spec == Init /\ [][Next]_vars

(***************************************************************************)
(* Properties.                                                             *)
(***************************************************************************)
\* 10^-9: the tolerance of the round-trip law and of the centroid test
RoundTripAtolDigits == 9
RoundTripAtol == Rat(1, <<1>>, NatPow10(RoundTripAtolDigits))

Normalizable(comp) == ~RatLt(RatAbs(total(comp)), EPSILON_ZERO)

\* comp / total, for a normalizable comp
Norm(comp) ==
  LET t == total(comp)
  IN  <<RatDiv(comp.a, t), RatDiv(comp.b, t), RatDiv(comp.c, t)>>

NonNegative(v) == \A i \in 1..3 : v[i].s >= 0

RoundTripDone == done /\ call.op = "round_trip" /\ Normalizable(call.c)

RoundTripClose ==
  /\ ret.ok
  /\ Normalizable(ret.v)
  /\ \A i \in 1..3 :
       RatLt(RatAbs(RatSub(Norm(ret.v)[i], Norm(call.c)[i])), RoundTripAtol)

\* C1 as stated: the round trip of every composition whose total is not
\* within EPSILON_ZERO of 0 reproduces its normalized coordinates within 1e-9,
\* in both orientations.
C1_AnyComposition == RoundTripDone => RoundTripClose

\* C1 as amended: the round trip of every composition whose total is not
\* within EPSILON_ZERO of 0 and whose normalized coordinates are all
\* non-negative (a point of the triangle) reproduces its normalized
\* coordinates within 1e-9, in both orientations.
C1_RoundTrip == RoundTripDone /\ NonNegative(Norm(call.c)) => RoundTripClose

\* an inverted round trip of a point of the triangle whose c was clamped to 0
C1_Witness ==
  /\ RoundTripDone /\ NonNegative(Norm(call.c)) /\ call.inv
  /\ call.c.c.s = 1 /\ ret.v.c.s = 0 /\ ret.v.a.s = 1 /\ ret.v.b.s = 1

\* Cartesian coordinates of a normalized triple, upright: x, and y in units
\* of TRIANGLE_HEIGHT
CartOf(v) == Point(RatAdd(v[2], RatMul(v[3], RatFrac(1, 2))), v[3])

\* the cross product of q - p and r - p, in units of TRIANGLE_HEIGHT
CrossAt(p, q, r) ==
  RatSub(RatMul(RatSub(q.x, p.x), RatSub(r.yh, p.yh)),
         RatMul(RatSub(q.yh, p.yh), RatSub(r.x, p.x)))

\* the cross product of the directions of the lines p1-p2 and p3-p4
LineCross(p1, p2, p3, p4) ==
  RatSub(RatMul(RatSub(p2.x, p1.x), RatSub(p4.yh, p3.yh)),
         RatMul(RatSub(p2.yh, p1.yh), RatSub(p4.x, p3.x)))

\* abs(coef * TRIANGLE_HEIGHT) < bound
BelowInHeight(coef, bound) ==
  RatLt(RatMul(RatMul(coef, coef), TRIANGLE_HEIGHT_SQ), RatMul(bound, bound))

LineArg(i) == <<call.p1, call.p2, call.p3, call.p4>>[i]

IntersectionDone ==
  /\ done /\ call.op = "solve_intersection"
  /\ \A i \in 1..4 : Normalizable(LineArg(i))

CallCross ==
  LineCross(CartOf(Norm(LineArg(1))), CartOf(Norm(LineArg(2))),
            CartOf(Norm(LineArg(3))), CartOf(Norm(LineArg(4))))

Parallel == BelowInHeight(CallCross, EPSILON_ZERO)

\* the returned composition lies on the line through LineArg(i), LineArg(j)
OnLine(i, j) ==
  BelowInHeight(CrossAt(CartOf(Norm(LineArg(i))), CartOf(Norm(LineArg(j))),
                        CartOf(Norm(ret.v.comp))), RoundTripAtol)

Medians ==
  /\ LineArg(1) = Composition(RatInt(1), RatInt(0), RatInt(0))
  /\ LineArg(2) = Composition(RatInt(0), RatInt(1), RatInt(1))
  /\ LineArg(3) = Composition(RatInt(0), RatInt(1), RatInt(0))
  /\ LineArg(4) = Composition(RatInt(1), RatInt(0), RatInt(1))

C3_ParallelNone == IntersectionDone /\ Parallel => ret.ok /\ ~ret.v.some

\* lines that are not exactly parallel, yet within the epsilon
C3_Witness ==
  /\ IntersectionDone /\ Parallel /\ CallCross.s # 0
  /\ LineArg(1) # LineArg(2) /\ LineArg(3) # LineArg(4)
  /\ ret.ok /\ ~ret.v.some

LeverArg(i) == <<call.s, call.e, call.p>>[i]

LeverDone(op) ==
  /\ done /\ call.op = op
  /\ \A i \in 1..3 : Normalizable(LeverArg(i))

LenSq ==
  LET d == VecSub(Norm(LeverArg(2)), Norm(LeverArg(1)))
  IN  RatAdd(RatAdd(RatMul(d[1], d[1]), RatMul(d[2], d[2])),
             RatMul(d[3], d[3]))

Coincide == RatLt(LenSq, EPSILON_ZERO)

\* point = start + t * (end - start) in normalized coordinates
AtFraction(t) ==
  \A i \in 1..3 :
    RatEq(Norm(LeverArg(3))[i],
          RatAdd(Norm(LeverArg(1))[i],
                 RatMul(t, RatSub(Norm(LeverArg(2))[i], Norm(LeverArg(1))[i]))))

Collinear ==
  \A i, j \in 1..3 :
    RatEq(RatMul(RatSub(Norm(LeverArg(3))[i], Norm(LeverArg(1))[i]),
                 RatSub(Norm(LeverArg(2))[j], Norm(LeverArg(1))[j])),
          RatMul(RatSub(Norm(LeverArg(3))[j], Norm(LeverArg(1))[j]),
                 RatSub(Norm(LeverArg(2))[i], Norm(LeverArg(1))[i])))

\* every coordinate of the point lies between those of start and end
Between ==
  \A i \in 1..3 :
    \/ /\ RatLe(Norm(LeverArg(1))[i], Norm(LeverArg(3))[i])
       /\ RatLe(Norm(LeverArg(3))[i], Norm(LeverArg(2))[i])
    \/ /\ RatLe(Norm(LeverArg(2))[i], Norm(LeverArg(3))[i])
       /\ RatLe(Norm(LeverArg(3))[i], Norm(LeverArg(1))[i])

\* C4: for a point on the line through start and end, get_lever_fraction
\* returns the t with point = start + t * (end - start): 0 at start, 1 at
\* end, within [0, 1] between them, and below 0 or above 1, unclamped,
\* beyond them.
C4_LeverFraction ==
  LeverDone("get_lever_fraction") /\ ~Coincide /\ Collinear =>
    /\ ret.ok
    /\ AtFraction(ret.v)
    /\ Norm(LeverArg(3)) = Norm(LeverArg(1)) => RatEq(ret.v, RatInt(0))
    /\ Norm(LeverArg(3)) = Norm(LeverArg(2)) => RatEq(ret.v, RatInt(1))
    /\ Between <=> RatLe(RatInt(0), ret.v) /\ RatLe(ret.v, RatInt(1))

\* a point beyond the end with a fraction above 1
C4_Witness ==
  /\ LeverDone("get_lever_fraction") /\ ~Coincide /\ Collinear
  /\ ret.ok /\ RatLt(RatInt(1), ret.v)

\* C5: when start and end coincide (squared distance below EPSILON_ZERO),
\* get_lever_fraction raises DegenerateBasisError and never returns 0.0, in
\* delta/math_utils.py and in core/math_utils.py alike.
C5_DegenerateRaises ==
  \A op \in {"get_lever_fraction", "core_get_lever_fraction"} :
    LeverDone(op) /\ Coincide =>
      ~ret.ok /\ ret.err = "DegenerateBasisError"

RatioDone == done /\ call.op = "find_integer_ratio"

NonNegativeInput == \A i \in 1..Len(call.floats) : call.floats[i].s >= 0

BelowEpsilon(x) == RatLt(RatAbs(x), EPSILON_ZERO)

InputTotal == fsum(call.floats)

\* the input passes the tests for zero: its normalized ratio is defined
Ratioable ==
  /\ \E i \in 1..Len(call.floats) : ~BelowEpsilon(call.floats[i])
  /\ ~BelowEpsilon(InputTotal)

NormalizedInput(i) == RatDiv(call.floats[i], InputTotal)

\* every component of v / sum(v) within RATIO_TOLERANCE of the normalized
\* input
WithinTolerance(v) ==
  /\ sum(v) > 0
  /\ \A i \in 1..Len(v) :
       RatLe(RatAbs(RatSub(RatFrac(v[i], sum(v)), NormalizedInput(i))),
             RATIO_TOLERANCE)

\* v with entry i lowered by one: a vector of a smaller sum
Lowered(v, i) == [v EXCEPT ![i] = @ - 1]

LoweredWithin(v) ==
  \E i \in 1..Len(v) : v[i] > 0 /\ WithinTolerance(Lowered(v, i))

NoCommonDivisor(v) ==
  \A g \in 2..max(v) : \E i \in 1..Len(v) : v[i] % g # 0

ByTier == pc = "loop"

\* C6 as stated: for every non-empty vector of non-negative floats with a
\* positive sum, find_integer_ratio returns the smallest integer vector
\* within the ratio tolerance of the normalized input: no integer vector of
\* a smaller sum (in particular none that lowers one entry of the result by
\* one) is within that tolerance.
C6_Smallest ==
  (RatioDone /\ call.floats # <<>> /\ NonNegativeInput /\ InputTotal.s = 1) =>
    /\ ret.ok
    /\ WithinTolerance(ret.v)
    /\ ~LoweredWithin(ret.v)

\* C6 as amended: for every non-empty vector of non-negative floats with an
\* entry of at least EPSILON_ZERO, a vector that find_integer_ratio returns
\* from a denominator tier is within the ratio tolerance of the normalized
\* input and has no common divisor, so it is the smallest vector of its own
\* ratio; a vector of a smaller sum within the tolerance may exist.
C6_WithinToleranceReduced ==
  (RatioDone /\ NonNegativeInput /\ Ratioable /\ ByTier) =>
    /\ ret.ok
    /\ WithinTolerance(ret.v)
    /\ NoCommonDivisor(ret.v)

\* a returned vector that is not the smallest within the tolerance
C6_Witness ==
  /\ RatioDone /\ NonNegativeInput /\ Ratioable /\ ByTier
  /\ ret.ok /\ LoweredWithin(ret.v)

HalfDeviationWithin ==
  RatLe(RatAbs(RatSub(NormalizedInput(1), RatFrac(1, 2))), RATIO_TOLERANCE)

\* C7: a vector returned by a denominator tier has every component, divided
\* by the vector's sum, within RATIO_TOLERANCE of the normalized input; a
\* two-component input is reported as [1,1] exactly when its deviation from
\* 0.5 is within the tolerance.
C7_TierValidated ==
  RatioDone =>
    /\ ByTier =>
         \A i \in 1..Len(ret.v) :
           RatLe(RatAbs(RatSub(NormalizedInput(i),
                               RatFrac(ret.v[i], sum(ret.v)))),
                 RATIO_TOLERANCE)
    /\ (Len(call.floats) = 2 /\ Ratioable) =>
         (ret.v = <<1, 1>> <=> HalfDeviationWithin)

\* a deviation from 0.5 inside the tolerance reported as [1,1]
C7_Witness ==
  /\ RatioDone /\ Len(call.floats) = 2 /\ Ratioable
  /\ ~RatEq(NormalizedInput(1), RatFrac(1, 2))
  /\ HalfDeviationWithin /\ ret.v = <<1, 1>> /\ ByTier

\* the input is a list of fractions of denominators up to 100
SmallDenominators ==
  \A i \in 1..Len(call.floats) :
    /\ call.floats[i].s >= 0
    /\ Len(call.floats[i].d) = 1
    /\ call.floats[i].d[1] <= 100

\* m is a common multiple of the denominators of such a list
CommonMultiple(m) ==
  \A i \in 1..Len(call.floats) : m % call.floats[i].d[1] = 0

\* the fractions are those of a vector of integers of sum at most 100
SumAtMost100 == \E m \in 1..100 : CommonMultiple(m)

\* the sum of that vector when it has gcd 1: the least common denominator
CommonDenominator ==
  CHOOSE m \in 1..100 :
    CommonMultiple(m) /\ \A k \in 1..(m - 1) : ~CommonMultiple(k)

\* the vector n of gcd 1 with call.floats[i] = n[i] / sum(n)
Numerators ==
  [i \in 1..Len(call.floats) |->
     NatToInt(call.floats[i].n) * (CommonDenominator \div call.floats[i].d[1])]

\* C8: for every vector n of non-negative integers with gcd 1 and sum at
\* most 100, find_integer_ratio of the fractions n[i] / sum(n) returns
\* exactly n.
C8_ExactSmallRatios ==
  ( /\ RatioDone /\ call.floats # <<>> /\ SmallDenominators
    /\ RatEq(InputTotal, RatInt(1)) /\ SumAtMost100 ) =>
      (ret.ok /\ ret.v = Numerators)

\* the ratio 17:12 returned exactly
C8_Witness ==
  /\ RatioDone /\ SmallDenominators /\ RatEq(InputTotal, RatInt(1))
  /\ SumAtMost100
  /\ Numerators = <<17, 12>> /\ ret.v = <<17, 12>>

RatioContract ==
  /\ ret.ok
  /\ Len(ret.v) = Len(call.floats)
  /\ \A i \in 1..Len(ret.v) :
       /\ ret.v[i] >= 0
       /\ (call.floats[i].s = 0) => ret.v[i] = 0
  /\ (\E i \in 1..Len(ret.v) : ret.v[i] # 0) => NoCommonDivisor(ret.v)
  /\ (\A i \in 1..Len(call.floats) : call.floats[i].s = 0) =>
       \A i \in 1..Len(ret.v) : ret.v[i] = 0

TierOrder == <<100, 10000, RATIO_MAX_DENOMINATOR>>

Validates(k) ==
  tier_candidate(normalized_list(call.floats), TierOrder[k]).valid

\* C10: the limits 100, 10000, RATIO_MAX_DENOMINATOR are tried in that
\* order, the candidate of the first limit that validates is returned and
\* no later limit is consulted; _fallback_scaling is used only when all
\* three fail; 200:1 and 1:999 fail at 100 and are returned exactly by 10000.
C10_FirstValidTier ==
  /\ Len(tried) <= 3
  /\ tried = SubSeq(TierOrder, 1, Len(tried))
  /\ \A k \in 1..Len(tried) :
       (k < Len(tried) \/ ~(done /\ ByTier)) => ~Validates(k)
  /\ (done /\ ByTier) =>
       /\ tried # <<>>
       /\ Validates(Len(tried))
       /\ ret = Ok(tier_candidate(normalized_list(call.floats),
                                  TierOrder[Len(tried)]).integers)
  /\ (pc = "fallback") => Len(tried) = 3
  /\ ( /\ done /\ Len(call.floats) = 2 /\ Ratioable /\ NonNegativeInput
       /\ \/ RatEq(NormalizedInput(2), RatFrac(1, 201))
          \/ RatEq(NormalizedInput(1), RatFrac(1, 1000)) ) =>
         /\ tried = <<100, 10000>>
         /\ ByTier
         /\ ret.v \in {<<200, 1>>, <<1, 999>>}

\* 200:1 returned by the second limit
C10_Witness ==
  /\ RatioDone /\ ByTier /\ tried = <<100, 10000>> /\ ret.v = <<200, 1>>

BoundaryDone == done /\ call.op = "get_line_triangle_intersections"

\* some normalized coordinates of x and y differ by COMPOSITION_COMPARISON_ATOL
\* or more
Apart(x, y) ==
  \E i \in 1..3 :
    RatLe(COMPOSITION_COMPARISON_ATOL,
          RatAbs(RatSub(Norm(x)[i], Norm(y)[i])))

NormalizedDone == done /\ call.op = "normalized"

RatSum3(v) == RatAdd(RatAdd(v[1], v[2]), v[3])

\* C12: Composition.normalized raises CompositionError exactly when
\* |total| < EPSILON_ZERO; otherwise it returns (a/total, b/total, c/total),
\* three finite numbers that sum to 1.
C12_Normalized ==
  NormalizedDone =>
    IF ~Normalizable(call.c) THEN ret = Raise("CompositionError")
    ELSE /\ ret.ok
         /\ \A i \in 1..3 : is_finite(ret.v[i])
         /\ ret.v = Norm(call.c)
         /\ RatEq(RatSum3(ret.v), Coord(1, 0))

ValidDone == done /\ call.op = "is_physically_valid"

\* every normalized coordinate of comp is >= -EPSILON_BOUNDARY
Inside(comp) ==
  \A i \in 1..3 : RatLe(RatNeg(EPSILON_BOUNDARY), Norm(comp)[i])

\* C13 as stated: is_physically_valid is true exactly for the compositions
\* that can be normalized and have all normalized coordinates
\* >= -EPSILON_BOUNDARY.
C13_ValidIffInside ==
  ValidDone => /\ ret.ok
               /\ ret.v = (Normalizable(call.c) /\ Inside(call.c))

\* C13: is_physically_valid is true exactly for the compositions whose total
\* is above EPSILON_ZERO and whose normalized coordinates are all
\* >= -EPSILON_BOUNDARY; it is false for a total that is negative or at most
\* EPSILON_ZERO.
C13_ValidIffPositiveInside ==
  ValidDone => /\ ret.ok
               /\ ret.v = (RatLt(EPSILON_ZERO, total(call.c)) /\ Inside(call.c))

\* a point within EPSILON_BOUNDARY outside the triangle is valid
C13_Witness ==
  /\ ValidDone /\ call.c \in OutsidePoints /\ ret.v
  /\ \E i \in 1..3 : Norm(call.c)[i].s < 0

CloseDone == done /\ call.op = "normalized_is_close"

atol_of(c) == IF c.atol.some THEN c.atol.v ELSE COMPOSITION_COMPARISON_ATOL

Scale(comp, k) ==
  Composition(RatMul(comp.a, k), RatMul(comp.b, k), RatMul(comp.c, k))

\* every normalized coordinate of x is less than atol from that of y
AllWithin(x, y, atol) ==
  \A i \in 1..3 : RatLt(RatAbs(RatSub(Norm(x)[i], Norm(y)[i])), atol)

\* true exactly when both normalize and all coordinates are within atol
CloseExactly ==
  /\ ret.ok
  /\ ret.v = (/\ Normalizable(call.x) /\ Normalizable(call.y)
              /\ AllWithin(call.x, call.y, atol_of(call)))

CloseSymmetric == ret.v = normalized_is_close(call.y, call.x, atol_of(call))

\* C14 as stated: normalized_is_close is true exactly when both compositions
\* normalize and all normalized coordinates differ by less than atol; it is
\* symmetric, and it does not change when the raw coordinates of an argument
\* are multiplied by a non-zero factor.
C14_CloseScaleFree ==
  CloseDone =>
    /\ CloseExactly
    /\ CloseSymmetric
    /\ \A k \in Factors :
         ret.v = normalized_is_close(Scale(call.x, k), call.y, atol_of(call))

\* C14: normalized_is_close is true exactly when both compositions normalize
\* and all normalized coordinates differ by less than atol; it is symmetric,
\* and it does not change when the raw coordinates of an argument are
\* multiplied by a non-zero factor that leaves |total| on the same side of
\* EPSILON_ZERO.
C14_CloseScaleKept ==
  CloseDone =>
    /\ CloseExactly
    /\ CloseSymmetric
    /\ \A k \in Factors :
         Normalizable(Scale(call.x, k)) = Normalizable(call.x) =>
           ret.v = normalized_is_close(Scale(call.x, k), call.y, atol_of(call))

\* two different compositions within the default tolerance, also after the
\* first is multiplied by -3
C14_Witness ==
  /\ CloseDone /\ ~call.atol.some /\ call.x # call.y /\ ret.v
  /\ Norm(call.x) # Norm(call.y)
  /\ normalized_is_close(Scale(call.x, Coord(-3, 0)), call.y, atol_of(call))

CartesianDone == done /\ call.op = "cart_to_bary"

\* the barycentric coordinates of the point (x, c * H) of the upright
\* triangle, as a sequence a, b, c
Barycentric(x, c) ==
  <<RatSub(RatSub(Coord(1, 0), x), RatMul(c, Coord(5, 1))),
    RatSub(x, RatMul(c, Coord(5, 1))), c>>

\* those of the call: the inverted triangle has c = 1 - y / H
BarycentricOfCall ==
  Barycentric(call.x, IF call.inv THEN RatSub(Coord(1, 0), call.yh)
                      ELSE call.yh)

\* r is 0 where |v| < EPSILON_ZERO and v elsewhere
Cleared(r, v) ==
  IF RatLt(RatAbs(v), EPSILON_ZERO) THEN r.s = 0 ELSE r = v

\* C15: every component of the Composition returned by cart_to_bary is
\* exactly 0 or of absolute value >= EPSILON_ZERO: in both orientations a
\* computed component within EPSILON_ZERO of zero is replaced by 0 and any
\* other is returned unchanged.
C15_Clamped ==
  CartesianDone =>
    /\ ret.ok
    /\ \A v \in {ret.v.a, ret.v.b, ret.v.c} :
         v.s = 0 \/ RatLe(EPSILON_ZERO, RatAbs(v))
    /\ Cleared(ret.v.a, BarycentricOfCall[1])
    /\ Cleared(ret.v.b, BarycentricOfCall[2])
    /\ Cleared(ret.v.c, BarycentricOfCall[3])

\* test_clamping: y = -1e-17 below the midpoint of AB gives c = 0
C15_Witness ==
  /\ CartesianDone /\ ~call.inv
  /\ call.x = Coord(5, 1) /\ call.yh = Coord(-1, 17)
  /\ BarycentricOfCall[3].s < 0 /\ ret.v.c.s = 0
  /\ ret.v.b = BarycentricOfCall[2]

CollinearArg(i) == <<call.p1, call.p2, call.p3>>[i]

AllNormalizable == \A i \in 1..3 : Normalizable(CollinearArg(i))

\* the second and the third argument from the first, normalized
FromFirst(i) == VecSub(Norm(CollinearArg(i)), Norm(CollinearArg(1)))

tol_of(c) == IF c.atol.some THEN c.atol.v ELSE TOLERANCE_ON_LINE_STRICT

\* |v x w|^2 = |v|^2 |w|^2 - (v . w)^2
CrossSq(v, w) ==
  RatSub(RatMul(dot(v, v), dot(w, w)), RatMul(dot(v, w), dot(v, w)))

\* the root of sq is less than tol
RootBelow(sq, tol) == RatLt(RatInt(0), tol) /\ RatLt(sq, RatMul(tol, tol))

\* all arguments lie on one side of the triangle and one is a vertex
VertexAndEdge ==
  /\ AllNormalizable
  /\ \E i \in 1..3 : \A j \in 1..3 : Norm(CollinearArg(j))[i].s = 0
  /\ \E j \in 1..3 : CollinearArg(j) \in {vertex_a, vertex_b, vertex_c}

C16_AreaWitness ==
  /\ done /\ call.op = "get_triangle_area"
  /\ <<call.p1, call.p2, call.p3>> = <<vertex_a, vertex_b, vertex_c>>
  /\ ret.v = Sqrt(RatFrac(3, 4))

OnLineDone == done /\ call.op = "is_point_on_line"

\* |w|^2 - (w . v)^2 / |v|^2: the squared distance of the point at w from
\* the line along v, both taken from the start
PerpendicularSq(v, w) ==
  RatSub(dot(w, w), RatDiv(RatMul(dot(w, v), dot(w, v)), dot(v, v)))

C18_NoneOnlyParallel ==
  done /\ call.op = "solve_intersection" =>
    IF \E i \in 1..4 : ~Normalizable(LineArg(i))
      THEN ret = Raise("CompositionError")
    ELSE ret = Ok(None) => Parallel

\* the compositions and the lines of the project, as sets
CompositionsOf(m) ==
  {m.project.compositions[i] : i \in 1..Len(m.project.compositions)}

LinesOf(m) == {m.project.lines[i] : i \in 1..Len(m.project.lines)}

Known(m, uid) == \E c \in CompositionsOf(m) : c.uid = uid

\* the coordinates of the composition uid of the project
CoordinatesOf(m, uid) ==
  (CHOOSE c \in CompositionsOf(m) : c.uid = uid).composition

\* x and y normalize and agree within COMPOSITION_COMPARISON_ATOL
Close(x, y) ==
  /\ Normalizable(x) /\ Normalizable(y)
  /\ AllWithin(x, y, COMPOSITION_COMPARISON_ATOL)

Joined(m, s, e) ==
  \E l \in LinesOf(m) : {l.start_uid, l.end_uid} = {s, e}

\* the call raised err and nothing of the manager changed
Refused(err) == ret' = Raise(err) /\ manager' = manager

\* one line from s to e was added under a new uid, and nothing else changed
LineAdded(s, e) ==
  /\ ret'.ok
  /\ \A l \in LinesOf(manager) : l.uid # ret'.v
  /\ ~Known(manager, ret'.v)
  /\ manager'.project.lines =
       Append(manager.project.lines, TieLine(ret'.v, s, e))
  /\ manager'.project.compositions = manager.project.compositions
  /\ manager'.comp_map = manager.comp_map
  /\ DOMAIN manager'.line_map = DOMAIN manager.line_map \cup {ret'.v}
  /\ manager'.line_map[ret'.v] = TieLine(ret'.v, s, e)

CreateLineLaw(s, e) ==
  IF s = e THEN Refused("ValidationError")
  ELSE IF ~Known(manager, s) \/ ~Known(manager, e)
    THEN Refused("EntityNotFoundError")
  ELSE IF Close(CoordinatesOf(manager, s), CoordinatesOf(manager, e))
    THEN Refused("ValidationError")
  ELSE IF Joined(manager, s, e) THEN Refused("DuplicateEntityError")
  ELSE LineAdded(s, e)

\* C19: create_line raises ValidationError when start_uid = end_uid,
\* EntityNotFoundError when a uid is unknown, ValidationError when the two
\* compositions are normalized_is_close, DuplicateEntityError when a line
\* joins the same two compositions in either direction, the first of these
\* that applies, and then changes nothing of the compositions, the lines,
\* the caches and the undo and redo stacks; otherwise it adds exactly one
\* line with these endpoints.  For ProjectManager and for ProjectController.
C19_CreateLine ==
  [][call'.op = "create_line" =>
       CreateLineLaw(call'.start_uid, call'.end_uid)]_vars

UpdateArg == call'.update

\* the coordinates that the update asks for
Wanted ==
  [f \in {"a", "b", "c"} |->
     IF UpdateArg[f].some THEN UpdateArg[f].v
     ELSE CoordinatesOf(manager, call'.uid)[f]]

\* a line attached to uid whose other end would be close to the coordinates
WouldDegenerate(uid, coords) ==
  \E l \in LinesOf(manager) :
    \/ l.start_uid = uid /\ Close(coords, CoordinatesOf(manager, l.end_uid))
    \/ l.end_uid = uid /\ Close(coords, CoordinatesOf(manager, l.start_uid))

\* only the name of the composition uid changed, to name
Renamed(uid, name) ==
  /\ ret'.ok
  /\ manager'.project.lines = manager.project.lines
  /\ Len(manager'.project.compositions) = Len(manager.project.compositions)
  /\ \A i \in 1..Len(manager.project.compositions) :
       manager'.project.compositions[i] =
         IF manager.project.compositions[i].uid = uid
         THEN [manager.project.compositions[i] EXCEPT !.name = name]
         ELSE manager.project.compositions[i]
  /\ manager'.comp_map[uid].name = name
  /\ manager'.line_map = manager.line_map

\* C20: update_composition with validate = True and coordinates that would
\* leave the composition normalized_is_close to the other end of a line
\* attached to it raises ValidationError and changes nothing of the manager;
\* an update of the name alone of an existing composition succeeds and
\* changes only that name in the project data (a snapshot of the result is
\* pushed for undo).
C20_UpdateComposition ==
  [][call'.op = "update_composition" /\ Known(manager, call'.uid) =>
       /\ (/\ call'.validate
           /\ \E f \in {"a", "b", "c"} : UpdateArg[f].some
           /\ WouldDegenerate(call'.uid, Wanted))
            => Refused("ValidationError")
       /\ (/\ UpdateArg.name.some
           /\ \A f \in {"a", "b", "c"} : ~UpdateArg[f].some)
            => Renamed(call'.uid, UpdateArg.name.v)]_vars

\* the end of a line refused the coordinates of the start of it
C20_Witness ==
  /\ call.op = "update_composition" /\ manager.class = "ProjectManager"
  /\ ret = Raise("ValidationError")
  /\ call.update.a.some /\ call.update.b.some
  /\ \E l \in LinesOf(manager) :
       /\ l.end_uid = call.uid
       /\ Known(manager, l.start_uid)
       /\ manager.comp_map[l.start_uid].composition #
            Composition(call.update.a.v, call.update.b.v, call.update.c.v)

IsLine(m, uid) == \E l \in LinesOf(m) : l.uid = uid

LineOf(m, uid) == CHOOSE l \in LinesOf(m) : l.uid = uid

\* a line other than line_uid joins s and e, in either direction
JoinedByOther(m, line_uid, s, e) ==
  \E l \in LinesOf(m) : l.uid # line_uid /\ {l.start_uid, l.end_uid} = {s, e}

\* the manager before the call is one that update_line_endpoints is to accept
EndpointsFit ==
  /\ IsLine(call.before, call.line_uid)
  /\ call.start_uid # call.end_uid
  /\ Known(call.before, call.start_uid) /\ Known(call.before, call.end_uid)
  /\ ~Close(CoordinatesOf(call.before, call.start_uid),
            CoordinatesOf(call.before, call.end_uid))
  /\ ~JoinedByOther(call.before, call.line_uid, call.start_uid, call.end_uid)

\* C21: for an existing line and two existing compositions of different
\* uids that are not normalized_is_close and not joined by another line,
\* update_line_endpoints succeeds, keeps the line's uid and leaves it with
\* exactly start_uid and end_uid, whatever the line's endpoints were; where
\* the call fails the lines are as they were.
C21_UpdateLineEndpoints ==
  (pc = "return" /\ call.op = "update_line_endpoints") =>
    /\ EndpointsFit =>
         /\ ret = Ok(None)
         /\ IsLine(manager, call.line_uid)
         /\ LineOf(manager, call.line_uid).start_uid = call.start_uid
         /\ LineOf(manager, call.line_uid).end_uid = call.end_uid
    /\ ~ret.ok => manager.project.lines = call.before.project.lines

\* the compositions but the one of uid, the lines but those that start or
\* end at uid
CompositionsBut(m, uid) == {c \in CompositionsOf(m) : c.uid # uid}

LinesClearOf(m, uid) ==
  {l \in LinesOf(m) : l.start_uid # uid /\ l.end_uid # uid}

\* C22: delete_composition(uid) of an existing uid returns, removes that
\* composition and every line that starts or ends at it, and leaves the
\* other compositions and lines as they were; of an unknown uid it raises
\* EntityNotFoundError and changes nothing.  For ProjectManager and for
\* ProjectController.
C22_DeleteComposition ==
  (pc = "return" /\ call.op = "delete_composition") =>
    IF Known(call.before, call.uid)
    THEN /\ ret = Ok(None)
         /\ CompositionsOf(manager) = CompositionsBut(call.before, call.uid)
         /\ LinesOf(manager) = LinesClearOf(call.before, call.uid)
    ELSE ret = Raise("EntityNotFoundError") /\ manager = call.before

\* the operations that change the project data and notify
Mutating ==
  {"create_composition", "create_line", "update_composition",
   "update_line_endpoints", "delete_composition", "delete_line"}

\* C23: an undo() that follows a successful mutating operation returns True
\* and leaves the project data exactly as it was before that operation; an
\* undo() with an empty undo stack returns False and changes nothing.  For
\* ProjectManager and for ProjectController.
C23_Undo ==
  [][call'.op = "undo" =>
       /\ (pc = "return" /\ call.op \in Mutating /\ ret.ok) =>
            /\ ret' = Ok(TRUE)
            /\ manager'.project = call.before.project
       /\ manager.undo_stack = <<>> =>
            ret' = Ok(FALSE) /\ manager' = manager]_vars

\* C24: a redo() that follows an undo() that returned True returns True and
\* leaves the project data as it was just before that undo; a redo() with
\* an empty redo stack returns False and changes nothing.  For
\* ProjectManager and for ProjectController.
C24_Redo ==
  [][call'.op = "redo" =>
       /\ (pc = "return" /\ call.op = "undo" /\ ret = Ok(TRUE)) =>
            /\ ret' = Ok(TRUE)
            /\ manager'.project = call.before.project
       /\ manager.redo_stack = <<>> =>
            ret' = Ok(FALSE) /\ manager' = manager]_vars

\* a redo brought back project data that the undo before it had replaced
C24_Witness ==
  /\ pc = "return" /\ call.op = "redo" /\ ret = Ok(TRUE)
  /\ manager.project # call.before.project

\* the line joins two different compositions of the project that are not
\* normalized_is_close
LineSound(m, l) ==
  /\ l.start_uid # l.end_uid
  /\ Known(m, l.start_uid) /\ Known(m, l.end_uid)
  /\ ~Close(CoordinatesOf(m, l.start_uid), CoordinatesOf(m, l.end_uid))

\* C25: in every state of a ProjectManager every line has different
\* start_uid and end_uid, both of compositions present in the project, the
\* two compositions are not normalized_is_close, and no two lines join the
\* same unordered pair of compositions.
C25_LinesSound ==
  manager.class = "ProjectManager" =>
    /\ \A l \in LinesOf(manager) : LineSound(manager, l)
    /\ \A l1 \in LinesOf(manager), l2 \in LinesOf(manager) :
         {l1.start_uid, l1.end_uid} = {l2.start_uid, l2.end_uid} => l1 = l2

\* the uids for which get_composition and get_line are asked
AskedUids == {0} \cup Issued

\* C26: after every public operation of a ProjectManager, returned or
\* raised, the keys of _comp_map are the uids of project.compositions and
\* the keys of _line_map are the uids of project.lines, so get_composition
\* and get_line succeed exactly for the entities listed.
C26_CachesInStep ==
  manager.class = "ProjectManager" =>
    /\ DOMAIN manager.comp_map = uids_of(manager.project.compositions)
    /\ DOMAIN manager.line_map = uids_of(manager.project.lines)
    /\ \A u \in AskedUids :
         /\ get_composition(manager, u).ok <=> Known(manager, u)
         /\ get_line(manager, u).ok <=> IsLine(manager, u)

\* delete_composition raised on a composition that has a line
C26_Witness ==
  /\ pc = "return" /\ call.op = "delete_composition"
  /\ manager.class = "ProjectManager"
  /\ ~ret.ok
  /\ \E l \in LinesOf(call.before) :
       l.start_uid = call.uid \/ l.end_uid = call.uid

\* C27: is_modified of a ProjectManager is False when new_project(),
\* load_from_file() and save_to_file() have returned, True when another
\* mutating operation has succeeded, and only those three set it to False.
C27_IsModified ==
  (pc = "return" /\ manager.class = "ProjectManager") =>
    /\ call.op \in {"new_project", "load_from_file", "save_to_file"} =>
         ~manager.is_modified
    /\ (call.op \in Mutating /\ ret.ok) => manager.is_modified
    /\ (call.before.is_modified /\ ~manager.is_modified) =>
         call.op \in {"new_project", "load_from_file", "save_to_file"}

\* a mutating operation of a ProjectManager has returned
Mutated ==
  /\ pc = "return" /\ manager.class = "ProjectManager"
  /\ call.op \in Mutating /\ ret.ok

\* the sequence without its last entry
Front(stack) == SubSeq(stack, 1, Len(stack) - 1)

C29_RedoCleared ==
  (pc = "return" /\ manager.class = "ProjectManager") =>
    /\ Mutated => manager.redo_stack = <<>>
    /\ (call.op = "undo" /\ ret = Ok(TRUE)) =>
         /\ manager.undo_stack = Front(call.before.undo_stack)
         /\ manager.redo_stack =
              Append(call.before.redo_stack, call.before.project)
    /\ (call.op = "redo" /\ ret = Ok(TRUE)) =>
         /\ manager.redo_stack = Front(call.before.redo_stack)
         /\ manager.undo_stack =
              Append(call.before.undo_stack, call.before.project)
    /\ call.op \in {"new_project", "load_from_file"} =>
         manager.undo_stack = <<>> /\ manager.redo_stack = <<>>

\* a mutating operation emptied a redo stack that held a snapshot
C29_Witness ==
  /\ Mutated
  /\ call.before.redo_stack # <<>>
  /\ manager.redo_stack = <<>>

\* ---- _fallback_scaling ----

\* the entries are non-negative and sum to one
SumsToOne(xs) ==
  /\ \A i \in 1..Len(xs) : xs[i].s >= 0
  /\ RatCmp(fsum(xs), RatInt(1)) = 0

\* each entry times SCALE, to the nearest integer
Scaled(xs) == [i \in 1..Len(xs) |-> round(RatMul(xs[i], RatInt(SCALE)))]

\* the position of the first largest entry
FirstLargest(ints) ==
  CHOOSE i \in 1..Len(ints) :
    /\ \A j \in 1..Len(ints) : ints[j] <= ints[i]
    /\ \A j \in 1..(i - 1) : ints[j] < ints[i]

\* ints with the rounding deficit added to its first largest entry
Settled(ints) ==
  [ints EXCEPT ![FirstLargest(ints)] = @ + (SCALE - sum(ints))]

\* ints divided by the greatest common divisor of its non-zero entries
Lowest(ints) ==
  [i \in 1..Len(ints) |->
     ints[i] \div reduce_gcd(SelectSeq(ints, LAMBDA x : x # 0))]

FallbackLaw(pre, out) ==
  /\ sum(pre) = SCALE
  /\ \A i \in 1..Len(pre) : pre[i] >= 0
  /\ out = Ok(Lowest(pre))

C30_ShortLists ==
  (done /\ call.op = "_fallback_scaling" /\ Len(call.normalized_floats) <= 3)
    => FallbackLaw(Settled(Scaled(call.normalized_floats)), ret)

\* a short list whose rounded values miss the scale
C30_DeficitSeen ==
  ~(done /\ call.op = "_fallback_scaling" /\ Len(call.normalized_floats) <= 3
      /\ sum(Scaled(call.normalized_floats)) # SCALE)

\* the crowded list comes back with a negative first entry
C30_NegativeSeen ==
  ~(done /\ call.op = "_fallback_scaling" /\ SumsToOne(call.normalized_floats)
      /\ ret.ok /\ \E i \in 1..Len(ret.v) : ret.v[i] < 0)

====
